---------------------------- MODULE Spec2Model ----------------------------
(***************************************************************************)
(* A model of the tile-streaming and camera-geometry core of geo-renderer: *)
(*   gridsquare.rs   GridCoords, GridSquare (load, sample, stitch)         *)
(*   camera.rs       Camera::project / Camera::unproject                   *)
(*   terraingrid.rs  TerrainGrid::new (load + two stitching passes)        *)
(*   renderer.rs     Renderer::render_images (altitude-ordered reloads)    *)
(*                                                                         *)
(* Number representation.  The program computes in f32.  The model keeps   *)
(*   - rationals <<n, d>> (d > 0, lowest terms) for the camera geometry,   *)
(*     so algebraic identities are checked exactly (the tolerance of the   *)
(*     floating-point version is zero here);                               *)
(*   - explicit f32 rounding (24-bit significand, round-half-even) in the  *)
(*     i32 <-> f32 conversions between GridCoords and Coords, where the    *)
(*     rounding decides the result;                                        *)
(*   - fixed-point integers for elevations (ElevScale units per metre) on  *)
(*     inputs for which every f32 operation of the sampler is exact.       *)
(***************************************************************************)
EXTENDS Integers, Sequences, FiniteSets, TLC

VARIABLES
    \* ---- GridCoords <-> Coords conversions (gridsquare.rs 28-45)
    coords,         \* the GridCoords being converted
    point,          \* Coords::from(coords), or NoValue
    back,           \* GridCoords::from(point), or NoValue
    conv_pc,        \* "start" | "world" | "back": how far the conversion went
    \* ---- Camera (camera.rs 98-127)
    intrinsics,     \* the Intrinsics record of the camera
    point_m,        \* camera-frame point handed to project, or NoValue
    point_px,       \* pixel: result of project / argument of unproject
    depth_m,        \* depth argument of unproject
    unprojected,    \* result of unproject: [ok |-> BOOLEAN, val |-> point], or NoValue
    cam_pc,         \* "start" | "projected" | "roundtrip" | "unprojected" | "idle"
    \* ---- TerrainGrid::new (terraingrid.rs 26-81)
    center_coords,  \* argument: GridCoords of the central tile
    agl_m,          \* argument: altitude of the viewpoint above the terrain
    view_range_m,   \* argument: radius within which terrain is loaded
    storage,        \* the elevation rasters on disk: GridCoords -> file
    circle,         \* the candidate tiles, sorted (terraingrid.rs 33-34)
    tiles,          \* HashMap<GridCoords, GridSquare> (terraingrid.rs 36)
    loaded,         \* history: tiles as GridSquare::new returned them
    pass_i,         \* position of the running stitching loop in circle
    grid_pc,        \* "start" | "pass1" | "pass2" | "done" | "panicked" | "idle"
    grid_err,       \* why new() panicked, or "none"
    exact,          \* history: every sample so far was computed without rounding
    stitch_log,     \* history: <<pass, coords>> of every cleanup_borders call so far
    last_call,      \* history: the arguments of the last cleanup_borders call
    \* ---- Renderer::render_images (renderer.rs 360-418)
    render_requests,   \* argument: the requests, in the caller's order
    camera_positions,  \* the tiles of the group map not visited yet
    grid_coords,       \* the tile of the group being rendered
    chunk_requests,    \* the requests of the group still to render, by AGL
    models,            \* the loaded terrain set: <<>> or <<its centre and altitude>>
    render_agl_m,      \* the local agl_m: altitude of the last reload
    rendered_requests, \* the results so far
    reload_log,        \* history: the requests at which TerrainGrid::new was called
    iteration,         \* history: what the last loop iteration saw and did
    render_pc,         \* "groups" | "requests" | "done" | "error" | "panicked" | "idle"
    \* ---- GridCoords::circle_m called on its own (gridsquare.rs 52-68)
    circle_center,     \* self
    radius_m,          \* argument of circle_m: the radius in metres
    circle_radius,     \* argument of circle: the radius in cells
    circle_coords,     \* the returned Vec<GridCoords>, or <<>> before the call
    circle_pc,         \* "start" | "done" (circle_m) | "circle_done" | "idle"
    \* ---- GridSquare::sample_altitude called on its own (gridsquare.rs 249-269)
    square,            \* self: a GridSquare with elevations in metres
    sample_coords,     \* argument: the world point (x, y), two f32 values
    sample_vertex,     \* history: <<i, j>> when the point was built as a grid vertex
    sampled,           \* the returned altitude, or NoValue before the call
    sample_pc,         \* "start" | "done" | "idle"
    \* ---- RenderRequest::normalize called on its own (renderer.rs 57-99)
    request,           \* self: a RenderRequest with any of the three poses
    grid_square,       \* argument: the tile the request lies on
    normalized,        \* the returned NormalizedRenderRequest, or NoValue
    norm_pc,           \* "start" | "done" | "idle"
    \* ---- GridSquare::new called on its own (gridsquare.rs 115-194)
    new_args,          \* the arguments of the last call and the raster it found
    new_lod,           \* history: the local lod of the last call, -1 if not reached
    new_squares        \* the Result of every call so far, in order

coordVars == <<coords, point, back, conv_pc>>
camVars   == <<intrinsics, point_m, point_px, depth_m, unprojected, cam_pc>>
gridVars  == <<center_coords, agl_m, view_range_m, storage, circle, tiles, loaded,
               pass_i, grid_pc, grid_err, exact, stitch_log, last_call>>
renderVars == <<render_requests, camera_positions, grid_coords, chunk_requests, models,
                render_agl_m, rendered_requests, reload_log, iteration, render_pc>>
circleVars == <<circle_center, radius_m, circle_radius, circle_coords, circle_pc>>
sampleVars == <<square, sample_coords, sample_vertex, sampled, sample_pc>>
normVars  == <<request, grid_square, normalized, norm_pc>>
newVars   == <<new_args, new_lod, new_squares>>
unitVars  == <<circleVars, sampleVars, normVars, newVars>>
vars      == <<coordVars, camVars, gridVars, renderVars, unitVars>>

NoValue == "none"

-----------------------------------------------------------------------------
(* Integer and rational helpers                                            *)

Abs(a) == IF a < 0 THEN -a ELSE a

Min(a, b) == IF a <= b THEN a ELSE b

Max(a, b) == IF a >= b THEN a ELSE b

RECURSIVE Gcd(_, _)
Gcd(a, b) == IF b = 0 THEN a ELSE Gcd(b, a % b)

RECURSIVE Pow2(_)
Pow2(k) == IF k = 0 THEN 1 ELSE 2 * Pow2(k - 1)

\* The rational n/d in lowest terms with a positive denominator.
Rat(n, d) ==
    LET g == Gcd(Abs(n), Abs(d))
        s == IF d < 0 THEN -1 ELSE 1
    IN  <<(s * n) \div g, (s * d) \div g>>

RInt(n) == <<n, 1>>

\* Over the least common denominator, which keeps the products small.
RAdd(a, b) ==
    LET g == Gcd(a[2], b[2])
    IN  Rat(a[1] * (b[2] \div g) + b[1] * (a[2] \div g), a[2] * (b[2] \div g))

RNeg(a) == <<-a[1], a[2]>>

RSub(a, b) == RAdd(a, RNeg(b))

\* Cross-cancelling keeps the intermediate products small.
RMul(a, b) ==
    LET g1 == Gcd(Abs(a[1]), b[2])
        g2 == Gcd(Abs(b[1]), a[2])
    IN  IF a[1] = 0 \/ b[1] = 0 THEN <<0, 1>>
        ELSE <<(a[1] \div g1) * (b[1] \div g2), (a[2] \div g2) * (b[2] \div g1)>>

\* Only called with b # 0.
RInv(b) == IF b[1] < 0 THEN <<-b[2], -b[1]>> ELSE <<b[2], b[1]>>

RDiv(a, b) == RMul(a, RInv(b))

RLe(a, b) == RSub(a, b)[1] <= 0

RLt(a, b) == RSub(a, b)[1] < 0

RAbs(a) == <<Abs(a[1]), a[2]>>

RFloor(a) == a[1] \div a[2]

-----------------------------------------------------------------------------
(* f32 rounding: the value nearest to a rational among the numbers         *)
(* m * 2^e with |m| < 2^24 (IEEE-754 binary32, round to nearest, ties to   *)
(* even; the model's magnitudes stay inside the normal range).             *)

RECURSIVE ExpUp(_, _, _)
ExpUp(p, q, k) == IF q * 2 <= p THEN ExpUp(p, q * 2, k + 1) ELSE k

RECURSIVE ExpDown(_, _, _)
ExpDown(p, q, k) == IF p >= q THEN k ELSE ExpDown(p * 2, q, k - 1)

\* floor(log2(p/q)) for p, q > 0
F32Exponent(p, q) == IF p >= q THEN ExpUp(p, q, 0) ELSE ExpDown(p, q, 0)

\* floor(2^k * r / d) for 0 <= r < d, bit by bit
RECURSIVE ScaledFraction(_, _, _)
ScaledFraction(r, d, k) ==
    IF k = 0 THEN 0
    ELSE IF r >= d - r THEN Pow2(k - 1) + ScaledFraction(r - (d - r), d, k - 1)
    ELSE ScaledFraction(r + r, d, k - 1)

\* (2^k * r) % d for 0 <= r < d
RECURSIVE ScaledRemainder(_, _, _)
ScaledRemainder(r, d, k) ==
    IF k = 0 THEN r
    ELSE IF r >= d - r THEN ScaledRemainder(r - (d - r), d, k - 1)
    ELSE ScaledRemainder(r + r, d, k - 1)

\* 2^k * r / d for 0 <= r < d and k >= 1, rounded to the nearest integer,
\* ties to even
RoundScaledFraction(r, d, k) ==
    LET t  == ScaledFraction(r, d, k + 1)
        fl == t \div 2
    IN  IF t % 2 = 0 THEN fl
        ELSE IF ScaledRemainder(r, d, k + 1) # 0 THEN fl + 1
        ELSE IF fl % 2 = 0 THEN fl ELSE fl + 1

RoundHalfEven(n, d) ==
    LET fl  == n \div d
        rem == n % d
    IN  IF 2 * rem < d THEN fl
        ELSE IF 2 * rem > d THEN fl + 1
        ELSE IF fl % 2 = 0 THEN fl ELSE fl + 1

F32Round(r) ==
    IF r[1] = 0 THEN <<0, 1>>
    ELSE LET p == Abs(r[1])
             s == IF r[1] < 0 THEN -1 ELSE 1
             e == F32Exponent(p, r[2]) - 23
             m == IF e >= 0 THEN RoundHalfEven(p, r[2] * Pow2(e))
                            ELSE (p \div r[2]) * Pow2(-e) + RoundScaledFraction(p % r[2], r[2], -e)
         IN  IF e >= 0 THEN <<s * m * Pow2(e), 1>> ELSE Rat(s * m, Pow2(-e))

F32Mul(a, b) == F32Round(RMul(a, b))

\* floor() of the f32 nearest to q >= 0.  Below 1 the f32 is 1 exactly when
\* q >= 1 - 2^-25 (the midpoint of 1 and its predecessor rounds to even, 1).
F32Floor(q) ==
    IF RLt(q, RInt(1))
    THEN IF q[2] - q[1] <= q[2] \div Pow2(25) THEN 1 ELSE 0
    ELSE RFloor(F32Round(q))

F32Div(a, b) == F32Round(RDiv(a, b))

-----------------------------------------------------------------------------
(* GridCoords and Coords (gridsquare.rs 17, 25-45, 70-81)                  *)

IMAGE_SIZE_M == 1000

GridCoords(x, y) == [x |-> x, y |-> y]

\* impl From<GridCoords> for Coords: (x as f32 * 1000.0, y as f32 * 1000.0, 0.0).
\* The products are integer-valued f32 numbers; the model keeps them as
\* integers (metres).
AxisToWorld(c) == LET w == F32Mul(F32Round(RInt(c)), RInt(IMAGE_SIZE_M)) IN w[1] \div w[2]

CoordsFromGridCoords(c) == [x |-> AxisToWorld(c.x), y |-> AxisToWorld(c.y), z |-> 0]

\* (point.x / IMAGE_SIZE_M).floor() as i32
AxisToGrid(w) == RFloor(F32Div(RInt(w), RInt(IMAGE_SIZE_M)))

\* The two axes exchanged.
GridCoordsFromCoordsSwapped(p) == GridCoords(AxisToGrid(p.y), AxisToGrid(p.x))

\* impl From<Coords> for GridCoords
GridCoordsFromCoords(p) == GridCoords(AxisToGrid(p.x), AxisToGrid(p.y))

below(c) == GridCoords(c.x, c.y + 1)

right(c) == GridCoords(c.x + 1, c.y)

above(c) == GridCoords(c.x, c.y - 1)

left(c)  == GridCoords(c.x - 1, c.y)


-----------------------------------------------------------------------------
(* Camera (camera.rs 56-127).  Points and pixels are records of rationals. *)

RECURSIVE SqrtSearch(_, _, _)
SqrtSearch(n, lo, hi) ==
    IF hi - lo <= 1 THEN lo
    ELSE LET mid == (lo + hi) \div 2
         IN  IF mid * mid <= n THEN SqrtSearch(n, mid, hi) ELSE SqrtSearch(n, lo, mid)

\* floor(sqrt(n)) for 0 <= n < 2^31
ISqrt(n) == SqrtSearch(n, 0, Min(n + 1, 46341))

IsSquare(n) == ISqrt(n) * ISqrt(n) = n

\* Whether sqrt(q) is rational.
RationalSqrt(q) == q[1] >= 0 /\ IsSquare(q[1]) /\ IsSquare(q[2])

\* f32::sqrt.  Exact where the root is rational; elsewhere the root is
\* rounded down to a multiple of 1/32 (f32 rounds to 24 bits: the model
\* rounds too, on a coarser grid).
RSqrt(q) ==
    IF RationalSqrt(q) THEN <<ISqrt(q[1]), ISqrt(q[2])>>
    ELSE Rat(ISqrt(1024 * (q[1] \div q[2]) + ScaledFraction(q[1] % q[2], q[2], 10)), 32)

Point3(x, y, z) == [x |-> x, y |-> y, z |-> z]

Point2(x, y) == [x |-> x, y |-> y]

\* The result of a division by zero (an infinity or a NaN in f32): no
\* rational, written with denominator 0.
NaN == <<0, 0>>

NonFinite2 == Point2(NaN, NaN)

NonFinite3 == Point3(NaN, NaN, NaN)

norm_squared3(p) == RAdd(RAdd(RMul(p.x, p.x), RMul(p.y, p.y)), RMul(p.z, p.z))

norm_squared2(p) == RAdd(RMul(p.x, p.x), RMul(p.y, p.y))

\* Camera::project (camera.rs 98-107)
project(intr, p) ==
    LET norm == RAdd(p.z, RMul(intr.xi, RSqrt(norm_squared3(p))))
    IN  IF norm[1] = 0 THEN NonFinite2
        ELSE Point2(RAdd(RDiv(RMul(intr.fx, p.x), norm), intr.cx),
                    RAdd(RDiv(RMul(intr.fy, p.y), norm), intr.cy))

\* normalized_px with the x focal length used for both axes.
normalized_px_fx_twice(intr, px) ==
    Point2(RDiv(RSub(px.x, intr.cx), intr.fx), RDiv(RSub(px.y, intr.cy), intr.fx))

\* camera.rs 111-114: the pixel in normalised image coordinates
normalized_px(intr, px) ==
    Point2(RDiv(RSub(px.x, intr.cx), intr.fx), RDiv(RSub(px.y, intr.cy), intr.fy))

\* camera.rs 116-120: arg = 1.0 + norm2 - normxi2
unproject_arg(intr, px) ==
    LET norm2   == norm_squared2(normalized_px(intr, px))
        xi2     == RMul(intr.xi, intr.xi)
        normxi2 == RMul(norm2, xi2)
    IN  RSub(RAdd(RInt(1), norm2), normxi2)

\* The FOV test with the boundary let through.
out_of_fov_strict(intr, px) == RLt(unproject_arg(intr, px), RInt(0))

\* camera.rs 121: if arg <= 0.0 { bail!("Point not in FOV") }
out_of_fov(intr, px) == RLe(unproject_arg(intr, px), RInt(0))

\* camera.rs 124-126: the point at depth 1 along z
unproject_ray(intr, px) ==
    LET n     == normalized_px(intr, px)
        norm2 == norm_squared2(n)
        a     == RAdd(intr.xi, RSqrt(unproject_arg(intr, px)))
        den   == RSub(a, RMul(intr.xi, RAdd(norm2, RInt(1))))
    IN  IF den[1] = 0 THEN NonFinite3
        ELSE LET s == RDiv(a, den)
             IN  Point3(RMul(s, n.x), RMul(s, n.y), RInt(1))

\* unproject_ray with the ray left unscaled (s = 1).
unproject_value_unscaled(intr, px, depth) ==
    LET n == normalized_px(intr, px)
    IN  Point3(RMul(depth, n.x), RMul(depth, n.y), depth)

\* camera.rs 126: depth_m * Point3::new(s * x, s * y, 1.0)
unproject_value(intr, px, depth) ==
    LET r == unproject_ray(intr, px)
    IN  IF r = NonFinite3 THEN NonFinite3
        ELSE Point3(RMul(depth, r.x), RMul(depth, r.y), RMul(depth, r.z))

\* Camera::unproject (camera.rs 109-127)
unproject(intr, px, depth) ==
    IF out_of_fov(intr, px) THEN [ok |-> FALSE, err |-> "Point not in FOV"]
    ELSE [ok |-> TRUE, val |-> unproject_value(intr, px, depth)]

Intrinsics(xi, fx, fy, cx, cy) == [xi |-> xi, fx |-> fx, fy |-> fy, cx |-> cx, cy |-> cy]

\* The cameras of the model: two pinholes (xi = 0; the second is the
\* 960x540, f = 500 one), a parabolic mirror (xi = 1), two fisheyes with
\* xi > 1 and a limited field of view, and one with xi < 0.
IntrinsicsSet ==
    { Intrinsics(RInt(0), RInt(2), RInt(3), RInt(2), RInt(1)),
      Intrinsics(RInt(0), RInt(500), RInt(500), RInt(480), RInt(270)),
      Intrinsics(RInt(1), RInt(2), RInt(2), RInt(2), RInt(2)),
      Intrinsics(<<5, 4>>, RInt(3), RInt(3), RInt(1), RInt(1)),
      Intrinsics(<<5, 3>>, RInt(1), RInt(1), RInt(0), RInt(0)),
      Intrinsics(<<-1, 2>>, RInt(2), RInt(3), RInt(1), RInt(1)) }

-----------------------------------------------------------------------------
(* GridCoords::circle, circle_m, min_dist_m (gridsquare.rs 52-88)          *)

\* circle without the test of line 62: the bounding square.
circle_of_square(c, radius) ==
    LET side == 2 * radius + 1
        pt(k) == GridCoords(c.x - radius + ((k - 1) \div side), c.y - radius + ((k - 1) % side))
    IN  IF radius < 0 THEN <<>>
        ELSE [k \in 1..(side * side) |-> pt(k)]

\* GridCoords::circle: the loops over x and y, in their order.
circle_of(c, radius) ==
    LET side == 2 * radius + 1
        pt(k) == GridCoords(c.x - radius + ((k - 1) \div side), c.y - radius + ((k - 1) % side))
        InDisk(q) == (q.x - c.x) * (q.x - c.x) + (q.y - c.y) * (q.y - c.y) <= radius * radius
    IN  IF radius < 0 THEN <<>>
        ELSE SelectSeq([k \in 1..(side * side) |-> pt(k)], InDisk)

\* circle_m with a cell radius one larger.
circle_m_wider(c, radius) ==
    circle_of(c, F32Floor(RDiv(RInt(radius), RInt(IMAGE_SIZE_M))) + 2)

\* GridCoords::circle_m
circle_m(c, radius) ==
    circle_of(c, F32Floor(RDiv(RInt(radius), RInt(IMAGE_SIZE_M))) + 1)

\* gridsquare.rs 85-87: dx * dx + dy * dy, the radicand of min_dist_m
min_dist_squared(a, b) ==
    LET dx == Max(Abs(b.x - a.x) - 1, 0)
        dy == Max(Abs(b.y - a.y) - 1, 0)
    IN  dx * dx + dy * dy

\* GridCoords::min_dist_m, a rational number of metres
min_dist_m(a, b) ==
    RMul(RSqrt(RInt(min_dist_squared(a, b))), RInt(IMAGE_SIZE_M))

-----------------------------------------------------------------------------
(* GridSquare (gridsquare.rs 91-269)                                       *)
(* The elevation grid is a sequence of columns: elevation[[x, y]] of the   *)
(* program is elevation[x + 1][y + 1] here.  Heights are integers in units *)
(* of 1/ElevScale metre.                                                   *)

ELEVATION_MAX_LOD == 2

MESH_MAX_RESOLUTION == 4000

MESH_MIN_RESOLUTION == 2

\* Fixed-point scale of the elevations: a height of h metres is stored as
\* h * 4096.
ElevScale == Pow2(12)

RECURSIVE Log2Floor(_)
Log2Floor(n) == IF n <= 1 THEN 0 ELSE 1 + Log2Floor(n \div 2)

\* calc_lod one level coarser.
calc_lod_coarser(image_resolution, target_resolution) ==
    Log2Floor(image_resolution \div target_resolution) + 1

\* calc_lod: ((image_resolution / target_resolution) as f32).log2().floor().max(0.0)
\* (log2(0) is -inf and ends as 0)
calc_lod(image_resolution, target_resolution) ==
    Log2Floor(image_resolution \div target_resolution)

RECURSIVE PowerOfTwoFrom(_, _)
PowerOfTwoFrom(n, p) == IF p >= n THEN p ELSE PowerOfTwoFrom(n, 2 * p)

\* The width taken as it is.
next_power_of_two_skipped(n) == n

\* u32::next_power_of_two
next_power_of_two(n) == PowerOfTwoFrom(n, 1)

\* ((IMAGE_SIZE_M / resolution_m).ceil() as u32).max(2).  The cast saturates:
\* a NaN or a negative quotient gives 0, +inf gives u32::MAX, which the
\* caller clamps to MESH_MAX_RESOLUTION; the model returns that clamp bound.
requested_resolution(resolution_m) ==
    IF resolution_m = NaN \/ resolution_m[1] < 0 THEN 2
    ELSE IF resolution_m[1] = 0 THEN MESH_MAX_RESOLUTION
    ELSE LET q == RDiv(RInt(IMAGE_SIZE_M), resolution_m)
         IN  Max(-((-q[1]) \div q[2]), 2)

\* The decoded (and, where its width is not the mesh resolution, resized)
\* raster of a tile, pixel (x, y) of row y: an input of the program.  The
\* model draws it from a family of fields without symmetry, one per seed.
RasterPixel(file, c, n, x, y) ==
    ((7 * c.x + 13 * c.y + 5 * x * x + 3 * y + 11 * x * y + n
        + (file.seed * (x + 2 * y + 1))) % 23) * ElevScale

\* gridsquare.rs 159-176: the grid of zeros with the raster written into it,
\* row y of the image going to column entry mesh_resolution - y - 1.
raster_grid(file, c, n) ==
    [i \in 1..(n + 1) |-> [j \in 1..(n + 1) |->
        IF i <= n /\ j <= n THEN RasterPixel(file, c, n, i - 1, n - 1 - (j - 1)) ELSE 0]]

\* gridsquare.rs 177-181: fill bottom row
fill_bottom_pad(e, n) ==
    [i \in 1..(n + 1) |-> [j \in 1..(n + 1) |->
        IF j = n + 1 THEN e[Min(i - 1, n - 1) + 1][n] ELSE e[i][j]]]

\* gridsquare.rs 182-186: fill rightmost row
fill_right_pad(e, n) ==
    [i \in 1..(n + 1) |-> [j \in 1..(n + 1) |->
        IF i = n + 1 THEN e[n][Min(j - 1, n - 1) + 1] ELSE e[i][j]]]

GridSquare(resolution, c, elevation) ==
    [resolution |-> resolution, coords |-> c, elevation |-> elevation]

\* gridsquare.rs 136: resolution.min(MESH_MAX_RESOLUTION).max(MESH_MIN_RESOLUTION)
target_mesh_resolution(resolution) ==
    Max(Min(resolution, MESH_MAX_RESOLUTION), MESH_MIN_RESOLUTION)

\* gridsquare.rs 136-140: the mesh resolution of a tile built for the
\* requested resolution from a raster of the given width
new_mesh_resolution(resolution, width) ==
    LET target == target_mesh_resolution(resolution)
        lod    == calc_lod(width, target)
    IN  next_power_of_two(width \div Pow2(lod))

\* GridSquare::new.  file is the raster the storage holds for coords:
\* status "ok", or "missing" (File::open fails) or "not_f32" (bail!).
GridSquareNew(c, resolution_m, file) ==
    IF file.status = "missing" THEN [ok |-> FALSE, err |-> "No such file or directory"]
    ELSE IF file.status = "not_f32" THEN [ok |-> FALSE, err |-> "Elevation Data not F32"]
    ELSE CHOOSE loaded_square \in
            {[ok |-> TRUE,
              square |-> GridSquare(p[1], c,
                            fill_right_pad(fill_bottom_pad(raster_grid(file, c, p[2]), p[2]), p[2]))]
               : p \in {<<resolution, new_mesh_resolution(resolution, file.width)>>
                           : resolution \in {requested_resolution(resolution_m)}}} : TRUE

\* self.elevation.dim().0 - 1
mesh_resolution(t) == Len(t.elevation) - 1

\* gridsquare.rs 252-268: the sample for idx = (ix, iy) / IMAGE_SIZE_M in a
\* grid of mesh resolution n.  `floor() as usize` saturates at 0.
sample_index(t, n, ix, iy) ==
    LET lft    == Max(ix \div IMAGE_SIZE_M, 0)
        rgt    == lft + 1
        left_fac  == rgt * IMAGE_SIZE_M - ix
        right_fac == ix - lft * IMAGE_SIZE_M
        bot    == Max(iy \div IMAGE_SIZE_M, 0)
        top    == bot + 1
        bottom_fac == top * IMAGE_SIZE_M - iy
        top_fac    == iy - bot * IMAGE_SIZE_M
        l == Min(lft, n)
        r == Min(rgt, n)
        b == Min(bot, n)
        u == Min(top, n)
        left_num  == t.elevation[l + 1][u + 1] * top_fac + t.elevation[l + 1][b + 1] * bottom_fac
        right_num == t.elevation[r + 1][u + 1] * top_fac + t.elevation[r + 1][b + 1] * bottom_fac
        left_val  == left_num \div IMAGE_SIZE_M
        right_val == right_num \div IMAGE_SIZE_M
        num       == left_val * left_fac + right_val * right_fac
    IN  [val   |-> num \div IMAGE_SIZE_M,
         exact |-> left_num % IMAGE_SIZE_M = 0 /\ right_num % IMAGE_SIZE_M = 0
                   /\ num % IMAGE_SIZE_M = 0]

\* GridSquare::sample_altitude at the world point (px, py), in metres.
\* idx = mesh_resolution * (coords - origin) / IMAGE_SIZE_M is kept as its
\* numerator over IMAGE_SIZE_M.  The origin and the point are values before
\* the index is formed from them.
sample_parts(t, px, py) ==
    CHOOSE sample \in
        {sample_index(t, mesh_resolution(t), mesh_resolution(t) * (a[2] - a[1].x),
                      mesh_resolution(t) * (a[3] - a[1].y))
           : a \in {<<CoordsFromGridCoords(t.coords), px, py>>}} : TRUE

sample_altitude(t, px, py) == sample_parts(t, px, py).val

\* interpolate with the weights of the two columns exchanged.
interpolate_weights_swapped(t, n, ix, iy) ==
    LET lft    == Max(RFloor(ix), 0)
        rgt    == lft + 1
        left_fac  == RSub(ix, RInt(lft))
        right_fac == RSub(RInt(rgt), ix)
        bot    == Max(RFloor(iy), 0)
        top    == bot + 1
        bottom_fac == RSub(RInt(top), iy)
        top_fac    == RSub(iy, RInt(bot))
        l == Min(lft, n)
        r == Min(rgt, n)
        b == Min(bot, n)
        u == Min(top, n)
        left_val  == RAdd(RMul(RInt(t.elevation[l + 1][u + 1]), top_fac),
                          RMul(RInt(t.elevation[l + 1][b + 1]), bottom_fac))
        right_val == RAdd(RMul(RInt(t.elevation[r + 1][u + 1]), top_fac),
                          RMul(RInt(t.elevation[r + 1][b + 1]), bottom_fac))
    IN  RAdd(RMul(left_val, left_fac), RMul(right_val, right_fac))

\* gridsquare.rs 252-268 for an index idx = (ix, iy) that need not be a
\* multiple of 1 / IMAGE_SIZE_M: rational index, factors and result.  The
\* sums and products are exact; `floor() as usize` saturates at 0.
interpolate(t, n, ix, iy) ==
    LET lft    == Max(RFloor(ix), 0)
        rgt    == lft + 1
        left_fac  == RSub(RInt(rgt), ix)
        right_fac == RSub(ix, RInt(lft))
        bot    == Max(RFloor(iy), 0)
        top    == bot + 1
        bottom_fac == RSub(RInt(top), iy)
        top_fac    == RSub(iy, RInt(bot))
        l == Min(lft, n)
        r == Min(rgt, n)
        b == Min(bot, n)
        u == Min(top, n)
        left_val  == RAdd(RMul(RInt(t.elevation[l + 1][u + 1]), top_fac),
                          RMul(RInt(t.elevation[l + 1][b + 1]), bottom_fac))
        right_val == RAdd(RMul(RInt(t.elevation[r + 1][u + 1]), top_fac),
                          RMul(RInt(t.elevation[r + 1][b + 1]), bottom_fac))
    IN  RAdd(RMul(left_val, left_fac), RMul(right_val, right_fac))

\* GridSquare::sample_altitude at a world point whose x and y are any f32
\* values (rationals): idx = mesh_resolution * (coords - origin) / IMAGE_SIZE_M
sample_altitude_at(t, pos) ==
    CHOOSE altitude \in
        {interpolate(t, mesh_resolution(t), idx[1], idx[2])
           : idx \in {LET origin == CoordsFromGridCoords(t.coords)
                          n      == RInt(mesh_resolution(t))
                      IN  <<RDiv(RMul(n, RSub(pos.x, RInt(origin.x))), RInt(IMAGE_SIZE_M)),
                            RDiv(RMul(n, RSub(pos.y, RInt(origin.y))), RInt(IMAGE_SIZE_M))>>}}
        : TRUE

\* cleanup_borders, gridsquare.rs 208-213: origin + Vector3::new(
\* x as f32 / mesh_resolution as f32 * IMAGE_SIZE_M, ..), one axis, in f32
vertex_coord(origin_axis, k, n) ==
    F32Round(RAdd(RInt(origin_axis), F32Mul(F32Div(RInt(k), RInt(n)), RInt(IMAGE_SIZE_M))))

\* The world coordinate of grid line k of a tile of mesh resolution n:
\* k as f32 / n as f32 * IMAGE_SIZE_M, a whole number of metres for n | 1000 * k.
vertex_offset(k, n) == (k * IMAGE_SIZE_M) \div n

\* An Option<&GridSquare> is the set of at most one tile.
Some(opt) == CHOOSE t \in opt : TRUE

\* stitch_bottom that leaves the row as it is.
stitch_bottom_skipped(e, origin, n, opt) == e

\* gridsquare.rs 206-218: fill bottom row from the bottom neighbour
stitch_bottom(e, origin, n, opt) ==
    IF opt = {} THEN e
    ELSE [i \in 1..(n + 1) |-> [j \in 1..(n + 1) |->
            IF j = n + 1
            THEN sample_altitude(Some(opt), origin.x + vertex_offset(i - 1, n),
                                 origin.y + IMAGE_SIZE_M)
            ELSE e[i][j]]]

\* stitch_right that leaves the column as it is.
stitch_right_skipped(e, origin, n, opt) == e

\* gridsquare.rs 219-230: fill rightmost row from the right neighbour
stitch_right(e, origin, n, opt) ==
    IF opt = {} THEN e
    ELSE [i \in 1..(n + 1) |-> [j \in 1..(n + 1) |->
            IF i = n + 1
            THEN sample_altitude(Some(opt), origin.x + IMAGE_SIZE_M,
                                 origin.y + vertex_offset(j - 1, n))
            ELSE e[i][j]]]

\* stitch_top that writes the row below the top row.
stitch_top_second_row(e, origin, n, opt) ==
    IF opt = {} THEN e
    ELSE [i \in 1..(n + 1) |-> [j \in 1..(n + 1) |->
            IF j = 2
            THEN sample_altitude(Some(opt), origin.x + vertex_offset(i - 1, n), origin.y)
            ELSE e[i][j]]]

\* gridsquare.rs 231-238: fill top row from the top neighbour
stitch_top(e, origin, n, opt) ==
    IF opt = {} THEN e
    ELSE [i \in 1..(n + 1) |-> [j \in 1..(n + 1) |->
            IF j = 1
            THEN sample_altitude(Some(opt), origin.x + vertex_offset(i - 1, n), origin.y)
            ELSE e[i][j]]]

\* stitch_left that leaves the column as it is.
stitch_left_skipped(e, origin, n, opt) == e

\* gridsquare.rs 239-246: fill leftmost row from the left neighbour
stitch_left(e, origin, n, opt) ==
    IF opt = {} THEN e
    ELSE [i \in 1..(n + 1) |-> [j \in 1..(n + 1) |->
            IF i = 1
            THEN sample_altitude(Some(opt), origin.x, origin.y + vertex_offset(j - 1, n))
            ELSE e[i][j]]]

\* GridSquare::cleanup_borders
cleanup_borders(self, bottom_neighbor, right_neighbor, top_neighbor, left_neighbor) ==
    CHOOSE stitched \in
        {LET n  == mesh_resolution(self)
             e1 == stitch_bottom(self.elevation, origin, n, bottom_neighbor)
             e2 == stitch_right(e1, origin, n, right_neighbor)
             e3 == stitch_top(e2, origin, n, top_neighbor)
             e4 == stitch_left(e3, origin, n, left_neighbor)
         IN  [self EXCEPT !.elevation = e4]
           : origin \in {CoordsFromGridCoords(self.coords)}} : TRUE

\* Whether every sample cleanup_borders takes is free of rounding.
cleanup_exact(self, bottom_neighbor, right_neighbor, top_neighbor, left_neighbor) ==
    \A origin \in {CoordsFromGridCoords(self.coords)} :
        LET n == mesh_resolution(self)
            ok(opt, dx, dy) ==
                opt = {} \/ sample_parts(Some(opt), origin.x + dx, origin.y + dy).exact
        IN  \A k \in 0..n :
              /\ (k * IMAGE_SIZE_M) % n = 0
              /\ ok(bottom_neighbor, vertex_offset(k, n), IMAGE_SIZE_M)
              /\ ok(right_neighbor, IMAGE_SIZE_M, vertex_offset(k, n))
              /\ ok(top_neighbor, vertex_offset(k, n), 0)
              /\ ok(left_neighbor, 0, vertex_offset(k, n))

-----------------------------------------------------------------------------
(* TerrainGrid::new (terraingrid.rs 26-81)                                 *)

\* (x, y) > (x', y') lexicographically
CoordsGreater(a, b) == a.x > b.x \/ (a.x = b.x /\ a.y > b.y)

RECURSIVE InsertDescending(_, _)
InsertDescending(sorted, c) ==
    IF sorted = <<>> THEN <<c>>
    ELSE IF CoordsGreater(c, Head(sorted)) THEN <<c>> \o sorted
    ELSE <<Head(sorted)>> \o InsertDescending(Tail(sorted), c)

RECURSIVE SortDescending(_)
\* circle.sort_by(|x, y| (y.0.x, y.0.y).cmp(&(x.0.x, x.0.y))): descending
SortDescending(seq) ==
    IF seq = <<>> THEN <<>>
    ELSE InsertDescending(SortDescending(Tail(seq)), Head(seq))

\* terraingrid.rs 33-34
sorted_circle(center, range_m) == SortDescending(circle_m(center, range_m))

\* nalgebra::distance of two points given in metres.  The squares are taken
\* of the differences in kilometres, which keeps them in the integer range.
distance(p, q) ==
    LET km(v) == RDiv(v, RInt(IMAGE_SIZE_M))
        d     == Point3(km(RSub(p.x, q.x)), km(RSub(p.y, q.y)), km(RSub(p.z, q.z)))
    IN  RMul(RSqrt(norm_squared3(d)), RInt(IMAGE_SIZE_M))

\* terraingrid.rs 39-40: the pixel of the tile's nearest ground point
estimate_px(intr, c, center, agl) ==
    project(intr, Point3(RInt(0), min_dist_m(c, center), RInt(agl)))

\* terraingrid.rs 41-46: the two unproject(..).unwrap() calls; TRUE when one
\* of them is handed the "Point not in FOV" error
estimate_fails(intr, c, center, agl) ==
    LET px == estimate_px(intr, c, center, agl)
    IN  /\ px # NonFinite2
        /\ \/ out_of_fov(intr, Point2(px.x, RAdd(px.y, RInt(1))))
           \/ out_of_fov(intr, Point2(RAdd(px.x, RInt(1)), px.y))

\* terraingrid.rs 39-47: the ground sampling distance of a tile, in metres
estimate_resolution_m(intr, c, center, agl) ==
    LET pt1_m  == Point3(RInt(0), min_dist_m(c, center), RInt(agl))
        pt1_px == estimate_px(intr, c, center, agl)
        pt2_m  == unproject_value(intr, Point2(pt1_px.x, RAdd(pt1_px.y, RInt(1))), RInt(agl))
        pt3_m  == unproject_value(intr, Point2(RAdd(pt1_px.x, RInt(1)), pt1_px.y), RInt(agl))
    IN  IF pt1_px = NonFinite2 \/ pt2_m = NonFinite3 \/ pt3_m = NonFinite3 THEN NaN
        ELSE RMul(<<1, 2>>, RAdd(distance(pt1_m, pt2_m), distance(pt1_m, pt3_m)))

\* tiles.get(&c)
Get(map, c) == IF c \in DOMAIN map THEN {map[c]} ELSE {}

SeqToSet(seq) == {seq[k] : k \in 1..Len(seq)}

-----------------------------------------------------------------------------
(* Renderer::render_images (renderer.rs 360-418), render_chunk (main.rs)   *)
(* A request is a PositionAgl pose: its position in whole metres, z the    *)
(* altitude above ground, which normalize leaves as camera_pos_agl.z.      *)

RenderRequest(request_id, x, y, z) == [request_id |-> request_id, x |-> x, y |-> y, z |-> z]

\* renderer.rs 17-30: the three RequestPose variants; positions and vectors
\* are Point3 records of rationals
PositionAgl(camera_pos_agl) == [kind |-> "PositionAgl", camera_pos_agl |-> camera_pos_agl]

PositionAsl(camera_pos_asl) == [kind |-> "PositionAsl", camera_pos_asl |-> camera_pos_asl]

FacingAsl(camera_pos_asl, camera_fwd, camera_up) ==
    [kind |-> "FacingAsl", camera_pos_asl |-> camera_pos_asl,
     camera_fwd |-> camera_fwd, camera_up |-> camera_up]

\* The altitude above sea level taken as agl - ground.
asl_altitude_subtracted(agl_z, ground) == F32Round(RSub(agl_z, ground))

\* renderer.rs 64: camera_pos_agl.z + grid_square.sample_altitude(camera_pos_agl)
asl_altitude(agl_z, ground) == F32Round(RAdd(agl_z, ground))

\* renderer.rs 74, 90: camera_pos_asl.z - grid_square.sample_altitude(camera_pos_asl)
agl_altitude(asl_z, ground) == F32Round(RSub(asl_z, ground))

\* RenderRequest::normalize
normalize(self, gs) ==
    LET pose == self.camera_pose
    IN  IF pose.kind = "PositionAgl"
        THEN [camera_pos_agl |-> pose.camera_pos_agl,
              camera_pos_asl |->
                  Point3(pose.camera_pos_agl.x, pose.camera_pos_agl.y,
                         asl_altitude(pose.camera_pos_agl.z,
                                      sample_altitude_at(gs, pose.camera_pos_agl))),
              camera_fwd |-> Point3(RInt(0), RInt(0), RInt(-1)),
              camera_up  |-> Point3(RInt(0), RInt(-1), RInt(0)),
              request_id |-> self.request_id]
        ELSE IF pose.kind = "PositionAsl"
        THEN [camera_pos_agl |->
                  Point3(pose.camera_pos_asl.x, pose.camera_pos_asl.y,
                         agl_altitude(pose.camera_pos_asl.z,
                                      sample_altitude_at(gs, pose.camera_pos_asl))),
              camera_pos_asl |-> pose.camera_pos_asl,
              camera_fwd |-> Point3(RInt(0), RInt(0), RInt(-1)),
              camera_up  |-> Point3(RInt(0), RInt(-1), RInt(0)),
              request_id |-> self.request_id]
        ELSE [camera_pos_agl |->
                  Point3(pose.camera_pos_asl.x, pose.camera_pos_asl.y,
                         agl_altitude(pose.camera_pos_asl.z,
                                      sample_altitude_at(gs, pose.camera_pos_asl))),
              camera_pos_asl |-> pose.camera_pos_asl,
              camera_fwd |-> pose.camera_fwd,
              camera_up  |-> pose.camera_up,
              request_id |-> self.request_id]

\* renderer.rs 379: let mut agl_m = -1000.0;
INITIAL_AGL_M == -1000

\* The reload test with a factor of 2.
needs_reload_doubled(z, agl) == z > 2 * agl

\* The reload test with >= for >.
needs_reload_inclusive(z, agl) == 2 * z >= 3 * agl

\* renderer.rs 381: render_request.camera_pos_agl.z > 1.5 * agl_m
needs_reload(z, agl) == 2 * z > 3 * agl

\* renderer.rs 367-369: the key of a request in the group map
group_of(req) == GridCoordsFromCoords(req)

RECURSIVE InsertByAgl(_, _)
InsertByAgl(sorted, req) ==
    IF sorted = <<>> THEN <<req>>
    ELSE IF req.z < Head(sorted).z THEN <<req>> \o sorted
    ELSE <<Head(sorted)>> \o InsertByAgl(Tail(sorted), req)

\* The group left in the caller's order.
SortByAgl_skipped(seq) == seq

RECURSIVE SortByAgl(_)
\* renderer.rs 377: chunk_requests.sort_by(.. z.total_cmp ..), a stable sort
SortByAgl(seq) ==
    IF seq = <<>> THEN <<>>
    ELSE InsertByAgl(SortByAgl(SubSeq(seq, 1, Len(seq) - 1)), seq[Len(seq)])

RECURSIVE InsertById(_, _)
InsertById(sorted, r) ==
    IF sorted = <<>> THEN <<r>>
    ELSE IF r.request_id < Head(sorted).request_id THEN <<r>> \o sorted
    ELSE <<Head(sorted)>> \o InsertById(Tail(sorted), r)

\* The images left in the order they were rendered in.
SortById_skipped(seq) == seq

RECURSIVE SortById(_)
\* renderer.rs 416: rendered_requests.sort_by_key(|r| r.request_id), stable
SortById(seq) ==
    IF seq = <<>> THEN <<>>
    ELSE InsertById(SortById(SubSeq(seq, 1, Len(seq) - 1)), seq[Len(seq)])

\* renderer.rs 366-369, 373: the requests of one tile, in the caller's order
group_requests(reqs, g) ==
    LET InGroup(r) == group_of(r) = g IN SelectSeq(reqs, InGroup)

\* main.rs 125: the altitudes render_chunk renders a chunk from
CHUNK_AGLS == <<300, 550, 800, 1200, 2000>>

\* main.rs 126: let resolution = 1500 / agl_m + 1;
chunk_resolution(agl) == (1500 \div agl) + 1

RECURSIVE chunk_positions(_, _)
\* main.rs 124-138: the camera positions of a chunk, altitude by altitude,
\* x_step outside and y_step inside.  Positions are kept to the metre below
\* (step_m and offset_m are fractions); all lie inside the chunk's tile.
chunk_positions(camera_pos, agls) ==
    IF agls = <<>> THEN <<>>
    ELSE LET agl == Head(agls)
             res == chunk_resolution(agl)
             at(k) == ((2 * k + 1) * IMAGE_SIZE_M) \div (2 * res)
         IN  [n \in 1..(res * res) |->
                 [x |-> camera_pos.x + at((n - 1) \div res),
                  y |-> camera_pos.y + at((n - 1) % res),
                  z |-> agl]]
             \o chunk_positions(camera_pos, Tail(agls))

\* main.rs 123-149: the requests render_chunk hands to render_images
chunk_render_requests(chunk_coords) ==
    LET pos == chunk_positions(CoordsFromGridCoords(chunk_coords), CHUNK_AGLS)
    IN  [n \in 1..Len(pos) |-> RenderRequest(n - 1, pos[n].x, pos[n].y, pos[n].z)]

-----------------------------------------------------------------------------
(* Bounds of the model                                                     *)

\* Tile coordinates run over -MaxCoord..MaxCoord and, on both sides of the
\* largest magnitude whose origin is exact in f32, F32Margin further values.
MaxCoord == 3

F32Margin == 5

\* Camera-frame points have integer components of magnitude <= MaxPoint.
MaxPoint == 3

\* Pixels handed to unproject have integer components in 0..MaxPixel.
MaxPixel == 6

\* At most MaxOdd rasters of a dataset differ in width from the others.
MaxOdd == 2

\* Level-0 rasters handed to GridSquare::new on its own are 1..MaxRasterWidth
\* pixels wide.
MaxRasterWidth == 8

\* A caller's list has at most MaxRequests requests.
MaxRequests == 3

\* circle_m is called with radii below (MaxRadiusKm + 1) * 1000 metres.
MaxRadiusKm == 3

\* sample_altitude is called at the vertices 0..MaxVertex and at the last two
\* vertices of each axis.
MaxVertex == 3


-----------------------------------------------------------------------------
(* Conversions specification: GridCoords -> Coords -> GridCoords           *)

\* 125 * x < 2^24 makes x * 1000 = 8 * (125 * x) exact in f32.
F32ExactCoord == Pow2(24) \div 125

CoordValues ==
    (-MaxCoord..MaxCoord)
      \cup {F32ExactCoord + k : k \in -F32Margin..F32Margin}
      \cup {-(F32ExactCoord + k) : k \in -F32Margin..F32Margin}

GridIdle ==
    /\ center_coords = NoValue
    /\ agl_m = NoValue
    /\ view_range_m = NoValue
    /\ storage = <<>>
    /\ circle = <<>>
    /\ tiles = <<>>
    /\ loaded = <<>>
    /\ pass_i = 0
    /\ grid_pc = "idle"
    /\ grid_err = "none"
    /\ exact = TRUE
    /\ stitch_log = <<>>
    /\ last_call = <<>>

NoIteration == [taken |-> FALSE]

RenderIdle ==
    /\ render_requests = <<>>
    /\ camera_positions = {}
    /\ grid_coords = NoValue
    /\ chunk_requests = <<>>
    /\ models = <<>>
    /\ render_agl_m = 0
    /\ rendered_requests = <<>>
    /\ reload_log = <<>>
    /\ iteration = NoIteration
    /\ render_pc = "idle"

CamIdle ==
    /\ intrinsics = NoValue
    /\ point_m = NoValue
    /\ point_px = NoValue
    /\ depth_m = NoValue
    /\ unprojected = NoValue
    /\ cam_pc = "idle"

CoordsIdle == coords = NoValue /\ point = NoValue /\ back = NoValue /\ conv_pc = "idle"

CircleIdle ==
    /\ circle_center = NoValue
    /\ radius_m = NoValue
    /\ circle_radius = NoValue
    /\ circle_coords = <<>>
    /\ circle_pc = "idle"

SampleIdle ==
    /\ square = NoValue
    /\ sample_coords = NoValue
    /\ sample_vertex = <<>>
    /\ sampled = NoValue
    /\ sample_pc = "idle"

NormIdle ==
    /\ request = NoValue
    /\ grid_square = NoValue
    /\ normalized = NoValue
    /\ norm_pc = "idle"

NewIdle == new_args = <<>> /\ new_lod = -1 /\ new_squares = <<>>

UnitIdle == CircleIdle /\ SampleIdle /\ NormIdle /\ NewIdle

InitCoords ==
    /\ coords \in {GridCoords(x, y) : x \in CoordValues, y \in CoordValues}
    /\ point = NoValue
    /\ back = NoValue
    /\ conv_pc = "start"
    /\ CamIdle
    /\ GridIdle
    /\ RenderIdle
    /\ UnitIdle

\* let origin: Coords = coords.into();
IntoCoords ==
    /\ conv_pc = "start"
    /\ point' = CoordsFromGridCoords(coords)
    /\ conv_pc' = "world"
    /\ UNCHANGED <<coords, back, camVars, gridVars, renderVars, unitVars>>

\* let c: GridCoords = point.into();
IntoGridCoords ==
    /\ conv_pc = "world"
    /\ back' = GridCoordsFromCoords(point)
    /\ conv_pc' = "back"
    /\ UNCHANGED <<coords, point, camVars, gridVars, renderVars, unitVars>>

NextCoords == IntoCoords \/ IntoGridCoords

SpecCoords == InitCoords /\ [][NextCoords]_vars

-----------------------------------------------------------------------------
(* Camera specification: project, unproject, and the round trip            *)

PointSet ==
    {Point3(RInt(x), RInt(y), RInt(z)) :
        x \in -MaxPoint..MaxPoint, y \in -MaxPoint..MaxPoint, z \in 1..(MaxPoint + 1)}

PixelSet == {Point2(RInt(x), RInt(y)) : x \in 0..MaxPixel, y \in 0..MaxPixel}

DepthSet == {RInt(1), <<5, 2>>}

InitCamera ==
    /\ intrinsics \in IntrinsicsSet
    /\ point_m = NoValue
    /\ point_px = NoValue
    /\ depth_m = NoValue
    /\ unprojected = NoValue
    /\ cam_pc = "start"
    /\ CoordsIdle
    /\ GridIdle
    /\ RenderIdle
    /\ UnitIdle

\* let px = camera.project(p);
Project ==
    /\ cam_pc = "start"
    /\ \E p \in PointSet :
          /\ point_m' = p
          /\ point_px' = project(intrinsics, p)
    /\ cam_pc' = "projected"
    /\ UNCHANGED <<intrinsics, depth_m, unprojected, coordVars, gridVars, renderVars, unitVars>>

\* camera.unproject(px, p.z) on the pixel project returned
UnprojectProjected ==
    /\ cam_pc = "projected"
    /\ point_px # NonFinite2
    /\ cam_pc' = "roundtrip"
    /\ depth_m' = point_m.z
    /\ unprojected' = unproject(intrinsics, point_px, point_m.z)
    /\ UNCHANGED <<intrinsics, point_m, point_px, coordVars, gridVars, renderVars, unitVars>>

\* camera.unproject(px, depth) on an arbitrary pixel
UnprojectPixel ==
    /\ cam_pc = "start"
    /\ cam_pc' = "unprojected"
    /\ \E px \in PixelSet, d \in DepthSet :
          /\ point_px' = px
          /\ depth_m' = d
          /\ unprojected' = unproject(intrinsics, px, d)
    /\ UNCHANGED <<intrinsics, point_m, coordVars, gridVars, renderVars, unitVars>>

NextCamera == Project \/ UnprojectProjected \/ UnprojectPixel

SpecCamera == InitCamera /\ [][NextCamera]_vars

-----------------------------------------------------------------------------
(* Terrain grid specification: TerrainGrid::new, one step per loop body    *)

\* The cameras terrain is loaded for: a pinhole, a parabolic mirror, and a
\* fisheye whose field of view ends before the next pixel.
GridCameraSet ==
    { Intrinsics(RInt(0), RInt(2), RInt(3), RInt(2), RInt(1)),
      Intrinsics(RInt(1), RInt(2), RInt(2), RInt(2), RInt(2)),
      Intrinsics(<<5, 3>>, RInt(1), RInt(1), RInt(0), RInt(0)) }

\* The central tile (LV95 kilometre 2600 / 1200); every grid line of the
\* tiles around it is a whole number of metres that f32 holds exactly.
CenterSet == {GridCoords(2600, 1200)}

\* The altitude above ground; with a ground distance of 1000 m it gives a
\* rational slant range.
AglSet == {750}

\* The elevation field a dataset holds.
SeedSet == {1}

\* View ranges: a radius of 1 (5 tiles) and of 2 (13 tiles).
ViewRangeSet == {500, 1500}

\* Widths of the level-0 rasters.
RasterWidths == {2, 4}

File(status, width, seed) == [status |-> status, width |-> width, seed |-> seed]

\* The datasets: every candidate has a raster; either all can be loaded,
\* of one width except at most MaxOdd that have another, or all have one
\* width and one of them cannot be loaded.
StorageSet(candidates) ==
    { [c \in candidates |-> File("ok", IF c \in odd THEN w2 ELSE w1, seed)] :
        w1 \in RasterWidths, w2 \in RasterWidths,
        odd \in {o \in SUBSET candidates : Cardinality(o) <= MaxOdd},
        seed \in SeedSet }
    \cup
    { [c \in candidates |-> File(IF c = bad THEN kind ELSE "ok", w1, seed)] :
        w1 \in RasterWidths, bad \in candidates, kind \in {"missing", "not_f32"},
        seed \in SeedSet }

InitGrid ==
    /\ intrinsics \in GridCameraSet
    /\ center_coords \in CenterSet
    /\ agl_m \in AglSet
    /\ view_range_m \in ViewRangeSet
    /\ storage = <<>>
    /\ circle = <<>>
    /\ tiles = <<>>
    /\ loaded = <<>>
    /\ pass_i = 0
    /\ grid_pc = "start"
    /\ grid_err = "none"
    /\ exact = TRUE
    /\ stitch_log = <<>>
    /\ last_call = <<>>
    /\ point_m = NoValue
    /\ point_px = NoValue
    /\ depth_m = NoValue
    /\ unprojected = NoValue
    /\ cam_pc = "idle"
    /\ CoordsIdle
    /\ RenderIdle
    /\ UnitIdle

gridInputs == <<center_coords, agl_m, view_range_m>>

\* terraingrid.rs 39-47 for every candidate: the pairs <<coords, resolution_m>>
estimates_of(sorted) ==
    {<<c, estimate_resolution_m(intrinsics, c, center_coords, agl_m)>> : c \in SeqToSet(sorted)}

\* terraingrid.rs 48-54: the tile GridSquare::new returns for a candidate
load_tile(st, estimates, c) ==
    GridSquareNew(c, (CHOOSE p \in estimates : p[1] = c)[2], st[c])

\* terraingrid.rs 33-56: the candidate list and the parallel load.  Each
\* closure first estimates the resolution, then reads its raster; a closure
\* whose unproject(..).unwrap() meets an error panics, and the panic leaves
\* new().
LoadTiles ==
    /\ grid_pc = "start"
    /\ \E sorted \in {sorted_circle(center_coords, view_range_m)} :
          /\ circle' = sorted
          /\ IF \E k \in 1..Len(sorted) :
                    estimate_fails(intrinsics, sorted[k], center_coords, agl_m)
             THEN /\ grid_pc' = "panicked"
                  /\ grid_err' = "unproject"
                  /\ UNCHANGED <<storage, tiles, loaded, pass_i>>
             ELSE \E estimates \in {estimates_of(sorted)} :
                  /\ storage' \in StorageSet(SeqToSet(sorted))
                  /\ tiles' = [c \in {q \in SeqToSet(sorted) :
                                         load_tile(storage', estimates, q).ok}
                                  |-> load_tile(storage', estimates, c).square]
                  /\ loaded' = tiles'
                  /\ pass_i' = 1
                  /\ grid_pc' = "pass1"
                  /\ UNCHANGED grid_err
    /\ UNCHANGED <<gridInputs, exact, stitch_log, last_call, camVars, coordVars,
                   renderVars, unitVars>>

\* The receiver and the four Option arguments of a cleanup_borders call
CleanupCall(self, bottom_neighbor, right_neighbor, top_neighbor, left_neighbor) ==
    [self |-> self, bottom_neighbor |-> bottom_neighbor, right_neighbor |-> right_neighbor,
     top_neighbor |-> top_neighbor, left_neighbor |-> left_neighbor]

\* The second loop entered one iteration before the first has ended.
pass1_next_pc_early(i, len) == IF i >= len - 1 THEN "pass2" ELSE "pass1"

\* terraingrid.rs 58 and 68: the second loop starts when the first has gone
\* through the whole of circle
pass1_next_pc(i, len) == IF i = len THEN "pass2" ELSE "pass1"

\* terraingrid.rs 58-67, one iteration: tiles.remove(coords).unwrap(), then
\* cleanup_borders against the tiles below and to the right, then insert.
StitchBottomRight ==
    /\ grid_pc = "pass1"
    /\ LET c == circle[pass_i]
       IN  IF c \notin DOMAIN tiles
           THEN /\ grid_pc' = "panicked"
                /\ grid_err' = "missing_tile"
                /\ UNCHANGED <<tiles, pass_i, exact, stitch_log, last_call>>
           ELSE /\ tiles' = [tiles EXCEPT ![c] =
                               cleanup_borders(tiles[c], Get(tiles, below(c)),
                                               Get(tiles, right(c)), {}, {})]
                /\ exact' = (exact /\ cleanup_exact(tiles[c], Get(tiles, below(c)),
                                                    Get(tiles, right(c)), {}, {}))
                /\ stitch_log' = Append(stitch_log, <<1, c>>)
                /\ last_call' = CleanupCall(tiles[c], Get(tiles, below(c)),
                                            Get(tiles, right(c)), {}, {})
                /\ pass_i' = IF pass_i = Len(circle) THEN 1 ELSE pass_i + 1
                /\ grid_pc' = pass1_next_pc(pass_i, Len(circle))
                /\ UNCHANGED grid_err
    /\ UNCHANGED <<gridInputs, storage, circle, loaded, camVars, coordVars, renderVars, unitVars>>

\* terraingrid.rs 68-77, one iteration: the same against the tiles above
\* and to the left.
StitchTopLeft ==
    /\ grid_pc = "pass2"
    /\ LET c == circle[pass_i]
       IN  IF c \notin DOMAIN tiles
           THEN /\ grid_pc' = "panicked"
                /\ grid_err' = "missing_tile"
                /\ UNCHANGED <<tiles, pass_i, exact, stitch_log, last_call>>
           ELSE /\ tiles' = [tiles EXCEPT ![c] =
                               cleanup_borders(tiles[c], {}, {}, Get(tiles, above(c)),
                                               Get(tiles, left(c)))]
                /\ exact' = (exact /\ cleanup_exact(tiles[c], {}, {}, Get(tiles, above(c)),
                                                    Get(tiles, left(c))))
                /\ stitch_log' = Append(stitch_log, <<2, c>>)
                /\ last_call' = CleanupCall(tiles[c], {}, {}, Get(tiles, above(c)),
                                            Get(tiles, left(c)))
                /\ pass_i' = IF pass_i = Len(circle) THEN pass_i ELSE pass_i + 1
                /\ grid_pc' = IF pass_i = Len(circle) THEN "done" ELSE "pass2"
                /\ UNCHANGED grid_err
    /\ UNCHANGED <<gridInputs, storage, circle, loaded, camVars, coordVars, renderVars, unitVars>>

NextGrid == LoadTiles \/ StitchBottomRight \/ StitchTopLeft

SpecGrid == InitGrid /\ [][NextGrid]_vars

\* The fixed-point arithmetic of the model lost nothing.
GridArithmeticExact == exact

-----------------------------------------------------------------------------
(* Rendering specification: render_images, one step per loop iteration     *)

\* Altitudes above ground of the callers' requests: 300 = 1.5 * 200 and
\* 450 = 1.5 * 300 sit on the boundary of the reload test; one lies below
\* the initial agl_m and one between it and the ground.
ZSet == {-2000, -100, 200, 300, 450}

\* Positions of the callers' requests: in tile (2600, 1200) and in the tile
\* to its right.
PositionSet == {[x |-> 2600500, y |-> 1200500], [x |-> 2601500, y |-> 1200500]}

\* Lists of n requests whose ids ascend or descend along the list.
RequestLists(n) ==
    { [k \in 1..n |-> RenderRequest(IF up THEN k - 1 ELSE n - k, ps[k].x, ps[k].y, zs[k])] :
        ps \in [1..n -> PositionSet], zs \in [1..n -> ZSet], up \in BOOLEAN }

\* One request per altitude of render_chunk, all in one tile.
chunk_agl_requests ==
    [k \in 1..Len(CHUNK_AGLS) |-> RenderRequest(k - 1, 2600500, 1200500, CHUNK_AGLS[k])]

RequestListSet ==
    UNION {RequestLists(n) : n \in 1..MaxRequests}
      \cup {chunk_agl_requests, chunk_render_requests(GridCoords(2600, 1200))}

InitRender ==
    /\ render_requests \in RequestListSet
    /\ camera_positions = {group_of(render_requests[k]) : k \in 1..Len(render_requests)}
    /\ grid_coords = NoValue
    /\ chunk_requests = <<>>
    /\ models = <<>>
    /\ render_agl_m = 0
    /\ rendered_requests = <<>>
    /\ reload_log = <<>>
    /\ iteration = NoIteration
    /\ render_pc = "groups"
    /\ CoordsIdle
    /\ CamIdle
    /\ GridIdle
    /\ UnitIdle

\* renderer.rs 371-379: the head of the loop over the group map, which hands
\* out the groups in no particular order.  GridSquare::new(..)? returns the
\* error of a tile that cannot be loaded.
StartGroup ==
    /\ render_pc = "groups"
    /\ \E g \in camera_positions :
          /\ grid_coords' = g
          /\ camera_positions' = camera_positions \ {g}
          /\ \/ /\ render_pc' = "requests"
                /\ chunk_requests' = SortByAgl(group_requests(render_requests, g))
                /\ models' = <<>>
                /\ render_agl_m' = INITIAL_AGL_M
             \/ /\ render_pc' = "error"
                /\ UNCHANGED <<chunk_requests, models, render_agl_m>>
    /\ iteration' = NoIteration
    /\ UNCHANGED <<render_requests, rendered_requests, reload_log>>
    /\ UNCHANGED <<coordVars, camVars, gridVars, unitVars>>

Rendered(req, with) == [request_id |-> req.request_id, z |-> req.z, models |-> with]

\* renderer.rs 380-414: one iteration of the loop over the requests of the
\* group.  TerrainGrid::new returns or panics; render_image(..).await? can
\* return an error.
RenderNext ==
    /\ render_pc = "requests"
    /\ LET req    == Head(chunk_requests)
           reload == needs_reload(req.z, render_agl_m)
           agl    == IF reload THEN req.z ELSE render_agl_m
           set    == IF reload THEN <<[center |-> grid_coords, agl_m |-> req.z]>> ELSE models
       IN  /\ render_agl_m' = agl
           /\ reload_log' = IF reload THEN Append(reload_log, req) ELSE reload_log
           /\ iteration' = [taken |-> TRUE, z |-> req.z, agl_before |-> render_agl_m,
                            models_before |-> models, reloaded |-> reload]
           /\ \/ /\ reload
                 /\ render_pc' = "panicked"
                 /\ UNCHANGED <<models, chunk_requests, rendered_requests>>
              \/ /\ models' = set
                 /\ \/ /\ rendered_requests' = Append(rendered_requests, Rendered(req, set))
                       /\ chunk_requests' = Tail(chunk_requests)
                       /\ render_pc' = IF Tail(chunk_requests) = <<>> THEN "groups"
                                       ELSE "requests"
                    \/ /\ render_pc' = "error"
                       /\ UNCHANGED <<chunk_requests, rendered_requests>>
    /\ UNCHANGED <<render_requests, camera_positions, grid_coords>>
    /\ UNCHANGED <<coordVars, camVars, gridVars, unitVars>>

\* renderer.rs 416-417: sort by request_id and return
ReturnRendered ==
    /\ render_pc = "groups"
    /\ camera_positions = {}
    /\ rendered_requests' = SortById(rendered_requests)
    /\ render_pc' = "done"
    /\ UNCHANGED <<render_requests, camera_positions, grid_coords, chunk_requests, models,
                   render_agl_m, reload_log, iteration>>
    /\ UNCHANGED <<coordVars, camVars, gridVars, unitVars>>

\* renderer.rs 372, 411, 417: what the caller gets: Ok(rendered_requests)
\* at the end, and with an Err (the `?` of lines 372 and 411) no request
returned_requests == IF render_pc = "done" THEN rendered_requests ELSE <<>>

NextRender == StartGroup \/ RenderNext \/ ReturnRendered

SpecRender == InitRender /\ [][NextRender]_vars

-----------------------------------------------------------------------------
(* Specification: GridCoords::circle_m called on its own                   *)

\* Centres on both sides of the axes and in the LV95 range.
CircleCenterSet ==
    {GridCoords(0, 0), GridCoords(-1, 2), GridCoords(-3, -3), GridCoords(2600, 1200)}

\* Radii in metres: whole kilometres, and values on both sides of a
\* kilometre and of the diagonal distances 1000 * sqrt(2) + 1000 * k.
RadiusSet == {1000 * k + off : k \in 0..MaxRadiusKm, off \in {0, 1, 414, 415, 999}}

\* Radii in cells, for circle called directly.
CellRadiusSet == 0..(MaxRadiusKm + 1)

InitCircle ==
    /\ circle_center \in CircleCenterSet
    /\ radius_m \in RadiusSet
    /\ circle_radius \in CellRadiusSet
    /\ circle_coords = <<>>
    /\ circle_pc = "start"
    /\ CoordsIdle
    /\ CamIdle
    /\ GridIdle
    /\ RenderIdle
    /\ SampleIdle
    /\ NormIdle
    /\ NewIdle

\* let circle = center_coords.circle_m(view_range_m);
CircleM ==
    /\ circle_pc = "start"
    /\ circle_coords' = circle_m(circle_center, radius_m)
    /\ circle_pc' = "done"
    /\ UNCHANGED <<circle_center, radius_m, circle_radius, coordVars, camVars, gridVars,
                   renderVars, sampleVars, normVars, newVars>>

\* self.circle(radius)
Circle ==
    /\ circle_pc = "start"
    /\ circle_coords' = circle_of(circle_center, circle_radius)
    /\ circle_pc' = "circle_done"
    /\ UNCHANGED <<circle_center, radius_m, circle_radius, coordVars, camVars, gridVars,
                   renderVars, sampleVars, normVars, newVars>>

NextCircle == CircleM \/ Circle

SpecCircle == InitCircle /\ [][NextCircle]_vars

-----------------------------------------------------------------------------
(* Specification: GridSquare::new called on its own, for a tile and then   *)
(* for the tile to its right                                               *)

\* Ground resolutions in metres per pixel: 1000 / resolution_m is 1, 2,
\* 2.5, 4, 5, 8, 100 and 5000; a negative one, and NaN.
ResolutionSet ==
    {RInt(1000), RInt(500), RInt(400), RInt(250), RInt(200), RInt(125), RInt(10), <<1, 5>>,
     RInt(-1), NaN}

\* The rasters: one of every width, one that is absent, one that is not F32.
NewFileSet ==
    {File("ok", w, 1) : w \in 1..MaxRasterWidth}
        \cup {File("missing", 2, 1), File("not_f32", 2, 1)}

InitNew ==
    /\ NewIdle
    /\ CoordsIdle
    /\ CamIdle
    /\ GridIdle
    /\ RenderIdle
    /\ CircleIdle
    /\ SampleIdle
    /\ NormIdle

\* GridSquare::new(coords, resolution_m, storage_config)
GridSquareNewCall ==
    /\ Len(new_squares) < 2
    /\ \E r \in ResolutionSet, f \in NewFileSet :
          \E c \in {GridCoords(2600 + Len(new_squares), 1200)} :
              /\ new_args' = [coords |-> c, resolution_m |-> r, file |-> f]
              /\ new_lod' = IF f.status = "missing" THEN -1
                            ELSE calc_lod(f.width,
                                          target_mesh_resolution(requested_resolution(r)))
              /\ new_squares' = Append(new_squares, GridSquareNew(c, r, f))
    /\ UNCHANGED <<coordVars, camVars, gridVars, renderVars, circleVars, sampleVars,
                   normVars>>

NextNew == GridSquareNewCall

SpecNew == InitNew /\ [][NextNew]_vars

-----------------------------------------------------------------------------
(* Specification: GridSquare::sample_altitude called on its own            *)

\* A tile at the origin of the plane and a tile of the LV95 range, where an
\* f32 has a quarter of a metre (x) or an eighth (y) as its last place.
SampleTileSet == {GridCoords(0, 0), GridCoords(2600, 1200)}

\* The linear field h(x, y) = x in metres, for n dividing IMAGE_SIZE_M
LinearField(n) ==
    [i \in 1..(n + 1) |-> [j \in 1..(n + 1) |-> ((i - 1) * IMAGE_SIZE_M) \div n]]

\* A field without symmetry, in metres
RoughField(c, n) ==
    [i \in 1..(n + 1) |-> [j \in 1..(n + 1) |->
        (7 * c.x + 13 * c.y + 5 * i * i + 3 * j + 11 * i * j) % 23]]

\* The tiles sampled: mesh resolutions 4, 8 and 64.
SampleSquareSet ==
    {GridSquare(n, c, LinearField(n)) : n \in {4, 8}, c \in SampleTileSet}
      \cup {GridSquare(n, c, RoughField(c, n)) : n \in {4, 64}, c \in SampleTileSet}

\* Offsets of the sampled points from the tile origin, in metres: inside the
\* tile, on its edges and beyond each of them.
OffsetSet == {-1000, -250, -1, 0, 1, 125, 500, 999, 1000, 1001, 2000}

VertexIndexSet(n) == {k \in 0..n : k <= MaxVertex \/ k >= n - 1}

InitSample ==
    /\ square \in SampleSquareSet
    /\ sample_coords = NoValue
    /\ sample_vertex = <<>>
    /\ sampled = NoValue
    /\ sample_pc = "start"
    /\ CoordsIdle
    /\ CamIdle
    /\ GridIdle
    /\ RenderIdle
    /\ CircleIdle
    /\ NormIdle
    /\ NewIdle

\* sample_altitude at the world position of vertex (i, j), built the way
\* cleanup_borders builds it
SampleVertex ==
    /\ sample_pc = "start"
    /\ \E i \in VertexIndexSet(mesh_resolution(square)),
          j \in VertexIndexSet(mesh_resolution(square)) :
          /\ sample_vertex' = <<i, j>>
          /\ sample_coords' =
                Point2(vertex_coord(CoordsFromGridCoords(square.coords).x, i,
                                    mesh_resolution(square)),
                       vertex_coord(CoordsFromGridCoords(square.coords).y, j,
                                    mesh_resolution(square)))
    /\ sampled' = sample_altitude_at(square, sample_coords')
    /\ sample_pc' = "done"
    /\ UNCHANGED <<square, coordVars, camVars, gridVars, renderVars, circleVars, normVars,
                   newVars>>

\* sample_altitude at a point given by its offset from the tile origin
SamplePoint ==
    /\ sample_pc = "start"
    /\ \E dx \in OffsetSet, dy \in OffsetSet :
          sample_coords' =
             Point2(F32Round(RInt(CoordsFromGridCoords(square.coords).x + dx)),
                    F32Round(RInt(CoordsFromGridCoords(square.coords).y + dy)))
    /\ sample_vertex' = <<>>
    /\ sampled' = sample_altitude_at(square, sample_coords')
    /\ sample_pc' = "done"
    /\ UNCHANGED <<square, coordVars, camVars, gridVars, renderVars, circleVars, normVars,
                   newVars>>

NextSample == SampleVertex \/ SamplePoint

SpecSample == InitSample /\ [][NextSample]_vars

-----------------------------------------------------------------------------
(* Specification: RenderRequest::normalize called on its own               *)

\* The tiles requests lie on: the tiles of SampleSquareSet of mesh
\* resolution 4.
NormalizeSquareSet == {sq \in SampleSquareSet : mesh_resolution(sq) = 4}

\* Request positions inside the tile, as offsets from its origin in metres.
\* With them every sample is a multiple of 1/4 m and the f32 sums are exact.
RequestOffsetSet == {0, 125, 500, 875}

\* Altitudes of a request in metres: low, chunk altitudes, below ground
RequestAltitudeSet == {-20, 300, 1500}

RequestIdSet == {0, 7}

\* The positions of the requests on a tile
RequestPositionSet(sq) ==
    {Point3(RInt(CoordsFromGridCoords(sq.coords).x + dx),
            RInt(CoordsFromGridCoords(sq.coords).y + dy), RInt(z))
        : dx \in RequestOffsetSet, dy \in RequestOffsetSet, z \in RequestAltitudeSet}

\* Forward and up vectors of a FacingAsl pose: level flight to the east and
\* to the north, up is +z
FacingSet ==
    {<<Point3(RInt(1), RInt(0), RInt(0)), Point3(RInt(0), RInt(0), RInt(1))>>,
     <<Point3(RInt(0), RInt(1), RInt(0)), Point3(RInt(0), RInt(0), RInt(1))>>}

PoseSet(sq) ==
    {PositionAgl(p) : p \in RequestPositionSet(sq)}
      \cup {PositionAsl(p) : p \in RequestPositionSet(sq)}
      \cup {FacingAsl(p, f[1], f[2]) : p \in RequestPositionSet(sq), f \in FacingSet}

InitNormalize ==
    /\ grid_square \in NormalizeSquareSet
    /\ request \in {[camera_pose |-> pose, request_id |-> id]
                       : pose \in PoseSet(grid_square), id \in RequestIdSet}
    /\ normalized = NoValue
    /\ norm_pc = "start"
    /\ CoordsIdle
    /\ CamIdle
    /\ GridIdle
    /\ RenderIdle
    /\ CircleIdle
    /\ SampleIdle
    /\ NewIdle

\* render_request.normalize(&grid_square)
Normalize ==
    /\ norm_pc = "start"
    /\ normalized' = normalize(request, grid_square)
    /\ norm_pc' = "done"
    /\ UNCHANGED <<request, grid_square, coordVars, camVars, gridVars, renderVars,
                   circleVars, sampleVars, newVars>>

NextNormalize == Normalize

SpecNormalize == InitNormalize /\ [][NextNormalize]_vars

-----------------------------------------------------------------------------
(* Properties of TerrainGrid::new                                          *)

Finished == grid_pc = "done"

\* The world y of vertex j of a tile's column.
VertexY(t, j) == CoordsFromGridCoords(t.coords).y + vertex_offset(j, mesh_resolution(t))

\* A's rightmost column holds what B's sampler returns on the shared edge.
RightColumnSampled(A, B) ==
    \A j \in 0..mesh_resolution(A) :
        A.elevation[mesh_resolution(A) + 1][j + 1]
            = sample_altitude(B, CoordsFromGridCoords(B.coords).x, VertexY(A, j))

Block(c) == {GridCoords(c.x + dx, c.y + dy) : dx \in -1..1, dy \in -1..1}

\* A full block whose tiles all have one mesh resolution.
UniformBlock(c) ==
    /\ Block(c) \subseteq DOMAIN tiles
    /\ \A d \in Block(c) : mesh_resolution(tiles[d]) = mesh_resolution(tiles[c])

\* A.elevation[N, j] = B.elevation[0, j] for B = A.right()
RightEdgeEqual(A, B) ==
    \A j \in 0..mesh_resolution(A) :
        A.elevation[mesh_resolution(A) + 1][j + 1] = B.elevation[1][j + 1]

\* A.elevation[i, N] = B.elevation[i, 0] for B = A.below()
BottomEdgeEqual(A, B) ==
    \A i \in 0..mesh_resolution(A) :
        A.elevation[i + 1][mesh_resolution(A) + 1] = B.elevation[i + 1][1]

FailedToLoad(c) == c \in DOMAIN storage /\ storage[c].status # "ok"

\* C3: a candidate whose GridSquare::new fails is dropped and new() goes on
\* without a panic, the tiles that remain forming the grid.
C3_FailedTileNotFatal ==
    ~(grid_pc = "panicked" /\ \E k \in 1..Len(circle) : FailedToLoad(circle[k]))

\* C4: an out-of-field-of-view error of unproject during the resolution
\* estimate does not end new().
C4_FovErrorNotFatal ==
    ~(grid_pc = "panicked" /\ grid_err = "unproject")

-----------------------------------------------------------------------------
(* Properties of render_images                                             *)

\* The altitudes at which TerrainGrid::new was called, in order.
ReloadAltitudes == [k \in 1..Len(reload_log) |-> reload_log[k].z]

\* render_images has returned the images of a list whose altitudes are the
\* five of render_chunk.
ChunkRunDone ==
    /\ render_pc = "done"
    /\ render_requests \in {chunk_agl_requests, chunk_render_requests(GridCoords(2600, 1200))}

\* C5 as stated: over the altitudes 300, 550, 800, 1200, 2000 in ascending
\* order the reload fires at every one of the five.
C5_ReloadAtEveryAltitude ==
    ChunkRunDone => ReloadAltitudes = <<300, 550, 800, 1200, 2000>>

\* C5: over the altitudes 300, 550, 800, 1200, 2000 in ascending order the
\* reload fires at 300, 550, 1200 and 2000 and not at 800 (800 is not above
\* 1.5 * 550 = 825), whose requests are rendered on the terrain loaded at 550.
C5_ReloadAtFourAltitudes ==
    ChunkRunDone =>
        /\ ReloadAltitudes = <<300, 550, 1200, 2000>>
        /\ \A k \in 1..Len(rendered_requests) :
              rendered_requests[k].z = 800 => rendered_requests[k].models[1].agl_m = 550

\* The five requests, one per altitude, have been rendered after four reloads.
C5_Witness ==
    /\ render_pc = "done"
    /\ render_requests = chunk_agl_requests
    /\ Len(rendered_requests) = 5
    /\ Len(reload_log) = 4

\* C6: an iteration reloads the terrain exactly when the request's AGL is
\* above 1.5 times the altitude of the last reload; a reload stores the
\* request's AGL, and an iteration without one leaves the stored altitude
\* and the loaded models as they were.
C6_ReloadIffAboveOneAndAHalf ==
    iteration.taken =>
        /\ iteration.reloaded
              <=> RLt(RMul(<<3, 2>>, RInt(iteration.agl_before)), RInt(iteration.z))
        /\ iteration.reloaded => render_agl_m = iteration.z
        /\ ~iteration.reloaded =>
              /\ render_agl_m = iteration.agl_before
              /\ models = iteration.models_before

\* A request exactly at 1.5 times the altitude of the last reload has been
\* rendered on the terrain already loaded.
C6_Witness ==
    /\ iteration.taken
    /\ ~iteration.reloaded
    /\ 2 * iteration.z = 3 * iteration.agl_before
    /\ models # <<>>
    /\ Len(reload_log) >= 2

-----------------------------------------------------------------------------
(* Properties of the camera                                                *)

\* arg as the fisheye model states it: 1 + r2 * (1 - xi^2), r2 the squared
\* norm of ((px - cx) / fx, (py - cy) / fy).
FovArg ==
    LET xh == RDiv(RSub(point_px.x, intrinsics.cx), intrinsics.fx)
        yh == RDiv(RSub(point_px.y, intrinsics.cy), intrinsics.fy)
        r2 == RAdd(RMul(xh, xh), RMul(yh, yh))
    IN  RAdd(RInt(1), RMul(r2, RSub(RInt(1), RMul(intrinsics.xi, intrinsics.xi))))

Unprojected == cam_pc \in {"roundtrip", "unprojected"}

\* C7: unproject fails with "Point not in FOV" exactly when arg <= 0; a pixel
\* with arg > 0 gets Ok, and the boundary arg = 0 is an error.
C7_FovErrorIffArgNotPositive ==
    Unprojected =>
        /\ (~unprojected.ok) <=> (FovArg[1] <= 0)
        /\ (~unprojected.ok) => unprojected.err = "Point not in FOV"

\* A pixel exactly on the boundary arg = 0 has been refused.
C7_Witness == cam_pc = "unprojected" /\ FovArg[1] = 0 /\ ~unprojected.ok

\* The pinhole projection (fx * x / z + cx, fy * y / z + cy).
Pinhole(intr, p) ==
    Point2(RAdd(RDiv(RMul(intr.fx, p.x), p.z), intr.cx),
           RAdd(RDiv(RMul(intr.fy, p.y), p.z), intr.cy))

\* C8: with xi = 0 unproject never fails, project is the pinhole projection
\* for z > 0, and unproject(project(P), P.z) = P.
C8_PinholeWhenXiZero ==
    cam_pc # "idle" /\ intrinsics.xi = RInt(0) =>
        /\ Unprojected => unprojected.ok
        /\ cam_pc \in {"projected", "roundtrip"} => point_px = Pinhole(intrinsics, point_m)
        /\ cam_pc = "roundtrip" => unprojected.val = point_m

\* A pinhole round trip of a point off both axes has been made.
C8_Witness ==
    /\ cam_pc = "roundtrip"
    /\ intrinsics.xi = RInt(0)
    /\ point_m.x[1] # 0 /\ point_m.y[1] # 0
    /\ unprojected.ok /\ unprojected.val = point_m

\* P lies strictly inside the field of view: z + xi * |P| > 0.
InsideFov(intr, p) == RLt(RInt(0), RAdd(p.z, RMul(intr.xi, RSqrt(norm_squared3(p)))))

\* C9: inverse law.  For a point P with P.z > 0 strictly inside the field of
\* view, unproject(project(P), P.z) succeeds and returns P.  Checked on the
\* points whose norm is rational, where the square roots are exact.
C9_InverseLaw ==
    /\ cam_pc = "roundtrip"
    /\ RationalSqrt(norm_squared3(point_m))
    /\ InsideFov(intrinsics, point_m)
    => unprojected.ok /\ unprojected.val = point_m

\* A round trip through a camera with xi > 1 of a point off both axes.
C9_Witness ==
    /\ cam_pc = "roundtrip"
    /\ RLt(RInt(1), intrinsics.xi)
    /\ RationalSqrt(norm_squared3(point_m))
    /\ point_m.x[1] # 0 /\ point_m.y[1] # 0
    /\ unprojected.ok /\ unprojected.val = point_m

-----------------------------------------------------------------------------
(* Properties of the conversions                                           *)

\* C10 as stated: for every integer tile coordinate, converting to the world
\* origin and back gives the coordinate again.
C10_RoundTripAllCoords == conv_pc = "back" => back = coords

\* C10 as amended: the round trip holds for the coordinates of magnitude at
\* most F32ExactCoord, whose origins x * 1000 are exact in f32.
C10_RoundTripExactOrigins ==
    /\ conv_pc = "back"
    /\ Abs(coords.x) <= F32ExactCoord
    /\ Abs(coords.y) <= F32ExactCoord
    => back = coords

\* A coordinate with a negative and a large component made the round trip.
C10_Witness ==
    /\ conv_pc = "back"
    /\ coords.x < 0 /\ coords.y = F32ExactCoord
    /\ back = coords

-----------------------------------------------------------------------------
(* Properties of GridCoords::circle_m                                      *)

\* a.min_dist_m(b) <= r for a whole number r of metres, decided on the
\* squares.  For the radii of RadiusSet the two sides differ by more than
\* 0.2 m unless they are equal, far more than an f32 rounding at this
\* magnitude, so the f32 comparison gives the same answer.
MinDistWithin(a, b, r) ==
    min_dist_squared(a, b) * IMAGE_SIZE_M * IMAGE_SIZE_M <= r * r

\* The tiles around the centre, two cells beyond the largest circle.
Neighbourhood(c) ==
    LET reach == MaxRadiusKm + 3
    IN  {GridCoords(c.x + dx, c.y + dy) : dx \in -reach..reach, dy \in -reach..reach}

\* C11: circle_m(C, r) contains C, and every tile D it returns is within r
\* metres of C by min_dist_m, taken either way round.
C11_CircleContainsCentreWithinRadius ==
    circle_pc = "done" =>
        /\ circle_center \in SeqToSet(circle_coords)
        /\ \A D \in SeqToSet(circle_coords) :
              /\ MinDistWithin(circle_center, D, radius_m)
              /\ MinDistWithin(D, circle_center, radius_m)

\* A circle of cell radius 3 was returned that holds a tile whose distance
\* is exactly the radius and a tile off the axes.
C11_Witness ==
    /\ circle_pc = "done"
    /\ radius_m = 2000
    /\ GridCoords(circle_center.x + 3, circle_center.y) \in SeqToSet(circle_coords)
    /\ GridCoords(circle_center.x - 2, circle_center.y + 2) \in SeqToSet(circle_coords)
    /\ circle_center.x < 0

\* C12: every tile D with C.min_dist_m(D) <= r is in circle_m(C, r).
C12_NoTileWithinRadiusMissed ==
    circle_pc = "done" =>
        \A D \in Neighbourhood(circle_center) :
            MinDistWithin(circle_center, D, radius_m) => D \in SeqToSet(circle_coords)

-----------------------------------------------------------------------------
(* Properties of GridSquare::sample_altitude                               *)

\* The sampled point relative to the tile origin, in metres (a rational).
LocalX == RSub(sample_coords.x, RInt(CoordsFromGridCoords(square.coords).x))

LocalY == RSub(sample_coords.y, RInt(CoordsFromGridCoords(square.coords).y))

ElevationValues ==
    {square.elevation[i][j] : i \in 1..Len(square.elevation), j \in 1..Len(square.elevation)}

\* C13: sample_altitude at the world position of grid vertex (i, j),
\* 0 <= i, j <= N, returns exactly elevation[i, j].
C13_VertexSampleExact ==
    sample_pc = "done" /\ Len(sample_vertex) = 2 =>
        sampled = RInt(square.elevation[sample_vertex[1] + 1][sample_vertex[2] + 1])

\* C14: whatever the world point, the sample lies between the least and the
\* greatest value of the elevation grid.
C14_SampleBetweenMinAndMax ==
    sample_pc = "done" =>
        /\ \E v \in ElevationValues : RLe(RInt(v), sampled)
        /\ \E v \in ElevationValues : RLe(sampled, RInt(v))

IsLinearField == square.elevation = LinearField(mesh_resolution(square))

InsideTile ==
    /\ RLe(RInt(0), LocalX) /\ RLe(LocalX, RInt(IMAGE_SIZE_M))
    /\ RLe(RInt(0), LocalY) /\ RLe(LocalY, RInt(IMAGE_SIZE_M))

\* C15: on a tile holding the linear field h(x, y) = x, sample_altitude at
\* a point inside the tile returns the local x coordinate of the point.
C15_LinearFieldReproduced ==
    sample_pc = "done" /\ IsLinearField /\ InsideTile => sampled = LocalX

\* The horizontal midpoint of a linear tile of mesh resolution 4 in the LV95
\* range, off the grid lines in y, was sampled as 500.
C15_Witness ==
    /\ sample_pc = "done"
    /\ IsLinearField
    /\ mesh_resolution(square) = 4
    /\ square.coords = GridCoords(2600, 1200)
    /\ LocalX = RInt(500) /\ LocalY = RInt(125)
    /\ sampled = RInt(500)

-----------------------------------------------------------------------------
(* Properties of RenderRequest::normalize                                  *)

\* The position the request was given with, above ground or above sea level.
RequestPosition ==
    IF request.camera_pose.kind = "PositionAgl"
    THEN request.camera_pose.camera_pos_agl
    ELSE request.camera_pose.camera_pos_asl

\* C16: the canonical pose has the x, y and request_id of the request, its
\* two altitudes differ by grid_square.sample_altitude at the request
\* position, PositionAgl and PositionAsl look along (0, 0, -1) with up
\* (0, -1, 0), and FacingAsl keeps its forward and up vectors.
C16_NormalizeCanonicalPose ==
    norm_pc = "done" =>
        /\ normalized.request_id = request.request_id
        /\ normalized.camera_pos_agl.x = RequestPosition.x
        /\ normalized.camera_pos_agl.y = RequestPosition.y
        /\ normalized.camera_pos_asl.x = RequestPosition.x
        /\ normalized.camera_pos_asl.y = RequestPosition.y
        /\ RSub(normalized.camera_pos_asl.z, normalized.camera_pos_agl.z)
              = sample_altitude_at(grid_square, RequestPosition)
        /\ IF request.camera_pose.kind = "FacingAsl"
           THEN /\ normalized.camera_fwd = request.camera_pose.camera_fwd
                /\ normalized.camera_up = request.camera_pose.camera_up
           ELSE /\ normalized.camera_fwd = Point3(RInt(0), RInt(0), RInt(-1))
                /\ normalized.camera_up = Point3(RInt(0), RInt(-1), RInt(0))

\* A PositionAgl request over ground that is neither zero nor a whole
\* number of metres was normalized.
C16_Witness ==
    /\ norm_pc = "done"
    /\ request.camera_pose.kind = "PositionAgl"
    /\ sample_altitude_at(grid_square, RequestPosition)[2] > 1
    /\ RLt(normalized.camera_pos_agl.z, normalized.camera_pos_asl.z)

-----------------------------------------------------------------------------
(* Properties of Renderer::render_images: errors                           *)

\* GridSquare::new(grid_coords, ..) failed at the head of a group: the call
\* ended with its error before any request of the group was taken up.
GroupTileFailed == render_pc = "error" /\ ~iteration.taken

\* C17: when the elevation tile of one group cannot be loaded, the requests
\* of the other groups are still rendered and returned.
C17_OtherGroupsStillReturned ==
    GroupTileFailed =>
        \A k \in 1..Len(render_requests) :
            group_of(render_requests[k]) # grid_coords =>
                \E n \in 1..Len(returned_requests) :
                    returned_requests[n].request_id = render_requests[k].request_id

-----------------------------------------------------------------------------
(* Properties of the stitching passes                                      *)

\* C18: in pass 1, when the bottom or right border of a tile is about to be
\* computed, the values it is computed from, the top row of the tile below
\* and the left column of the tile to the right with their corner cells,
\* are the values those tiles were loaded with.
C18_Pass1ReadsAsLoadedNeighbours ==
    grid_pc = "pass1" /\ circle[pass_i] \in DOMAIN tiles =>
        LET c == circle[pass_i]
        IN  /\ \A B \in Get(tiles, below(c)) :
                  \A i \in 1..Len(B.elevation) :
                      B.elevation[i][1] = loaded[below(c)].elevation[i][1]
            /\ \A R \in Get(tiles, right(c)) :
                  \A j \in 1..Len(R.elevation) :
                      R.elevation[1][j] = loaded[right(c)].elevation[1][j]

Logged(pass, c) == \E k \in 1..Len(stitch_log) : stitch_log[k] = <<pass, c>>

\* C19: every pass-1 call precedes every pass-2 call, pass 2 starts only
\* when every loaded tile has had its pass-1 call, no tile is stitched twice
\* in a pass, and at the end every loaded tile was stitched in both.
C19_PassesAreBarriers ==
    /\ \A k, m \in 1..Len(stitch_log) :
          stitch_log[k][1] = 2 /\ stitch_log[m][1] = 1 => m < k
    /\ (\E k \in 1..Len(stitch_log) : stitch_log[k][1] = 2) =>
          \A c \in DOMAIN tiles : Logged(1, c)
    /\ \A k, m \in 1..Len(stitch_log) : k # m => stitch_log[k] # stitch_log[m]
    /\ Finished => \A c \in DOMAIN tiles : Logged(1, c) /\ Logged(2, c)

\* Pass 2 is under way on a grid of 13 tiles: all 13 pass-1 calls and some
\* but not all pass-2 calls were made.
C19_Witness ==
    /\ grid_pc = "pass2"
    /\ Cardinality(DOMAIN tiles) = 13
    /\ Len(stitch_log) > 15 /\ Len(stitch_log) < 26

Sides == {"bottom", "right", "top", "left"}

NeighbourAt(call, side) ==
    CASE side = "bottom" -> call.bottom_neighbor
      [] side = "right"  -> call.right_neighbor
      [] side = "top"    -> call.top_neighbor
      [] side = "left"   -> call.left_neighbor

\* Vertex k of the border row or column of a tile on a side.
BorderCell(t, side, k) ==
    LET n == mesh_resolution(t)
    IN  CASE side = "bottom" -> t.elevation[k + 1][n + 1]
          [] side = "right"  -> t.elevation[n + 1][k + 1]
          [] side = "top"    -> t.elevation[k + 1][1]
          [] side = "left"   -> t.elevation[1][k + 1]

\* neighbour.sample_altitude at the world coordinate of that vertex.
BorderSample(t, nb, side, k) ==
    LET n      == mesh_resolution(t)
        origin == CoordsFromGridCoords(t.coords)
    IN  CASE side = "bottom" ->
               sample_altitude(nb, origin.x + vertex_offset(k, n), origin.y + IMAGE_SIZE_M)
          [] side = "right"  ->
               sample_altitude(nb, origin.x + IMAGE_SIZE_M, origin.y + vertex_offset(k, n))
          [] side = "top"    ->
               sample_altitude(nb, origin.x + vertex_offset(k, n), origin.y)
          [] side = "left"   ->
               sample_altitude(nb, origin.x, origin.y + vertex_offset(k, n))

\* The tile the last call worked on, as the call left it.
Stitched == tiles[last_call.self.coords]

\* C20 as stated: after cleanup_borders, on every side whose neighbour is
\* present every vertex of the border holds the neighbour's sample_altitude
\* at the vertex.
C20_EveryBorderVertexFromItsNeighbour ==
    stitch_log # <<>> =>
        \A side \in Sides : \A nb \in NeighbourAt(last_call, side) :
            \A k \in 0..mesh_resolution(Stitched) :
                BorderCell(Stitched, side, k) = BorderSample(Stitched, nb, side, k)

\* Vertex k of a side is also a vertex of a side that is present and is
\* written later in the call (the order is bottom, right, top, left).
WrittenLater(call, side, k, n) ==
    CASE side = "bottom" -> \/ k = n /\ call.right_neighbor # {}
                            \/ k = 0 /\ call.left_neighbor # {}
      [] side = "right"  -> k = 0 /\ call.top_neighbor # {}
      [] side = "top"    -> k = 0 /\ call.left_neighbor # {}
      [] side = "left"   -> FALSE

\* C20 as amended: the same for every vertex but the corner that a side
\* written later in the call shares; that corner holds the later side's
\* sample.
C20_BorderVertexFromLastWriter ==
    stitch_log # <<>> =>
        \A side \in Sides : \A nb \in NeighbourAt(last_call, side) :
            \A k \in 0..mesh_resolution(Stitched) :
                ~WrittenLater(last_call, side, k, mesh_resolution(Stitched)) =>
                    BorderCell(Stitched, side, k) = BorderSample(Stitched, nb, side, k)

\* A call with both a bottom and a right neighbour changed the tile's bottom
\* row and right column, and left in the shared corner the right neighbour's
\* sample, which is not the bottom neighbour's.
C20_Witness ==
    /\ stitch_log # <<>>
    /\ last_call.bottom_neighbor # {} /\ last_call.right_neighbor # {}
    /\ LET n == mesh_resolution(Stitched)
       IN  /\ Stitched.elevation[1][n + 1] # last_call.self.elevation[1][n + 1]
           /\ Stitched.elevation[n + 1][1] # last_call.self.elevation[n + 1][1]
           /\ \A nb \in last_call.right_neighbor :
                 BorderCell(Stitched, "right", n) = BorderSample(Stitched, nb, "right", n)
           /\ \A nb \in last_call.bottom_neighbor :
                 BorderCell(Stitched, "bottom", n) # BorderSample(Stitched, nb, "bottom", n)

-----------------------------------------------------------------------------
(* Properties of cleanup_borders: what a call leaves alone                 *)

\* C21: after any sequence of cleanup_borders calls a tile has the coords,
\* the resolution field and the grid dimensions it was loaded with, and
\* every interior cell (indices 1..N-1 in both axes) has its loaded value.
C21_OnlyBorderCellsChange ==
    \A c \in DOMAIN tiles :
        LET t == tiles[c]
            l == loaded[c]
            n == mesh_resolution(l)
        IN  /\ t.coords = l.coords
            /\ t.resolution = l.resolution
            /\ Len(t.elevation) = Len(l.elevation)
            /\ \A i \in 1..(n + 1) : Len(t.elevation[i]) = Len(l.elevation[i])
            /\ \A i, j \in 2..n : t.elevation[i][j] = l.elevation[i][j]

\* Both passes are over and a tile of mesh resolution 4 with all four
\* neighbours loaded has another value than the loaded one on each side.
C21_Witness ==
    /\ Finished
    /\ \E c \in DOMAIN tiles :
          /\ mesh_resolution(tiles[c]) = 4
          /\ {below(c), right(c), above(c), left(c)} \subseteq DOMAIN tiles
          /\ \A side \in Sides : \E k \in 1..3 :
                BorderCell(tiles[c], side, k) # BorderCell(loaded[c], side, k)

\* No tile is loaded at the neighbouring coordinate on a side.
NoNeighbour(c, side) ==
    CASE side = "bottom" -> below(c) \notin DOMAIN tiles
      [] side = "right"  -> right(c) \notin DOMAIN tiles
      [] side = "top"    -> above(c) \notin DOMAIN tiles
      [] side = "left"   -> left(c) \notin DOMAIN tiles

\* C22: a call leaves every cell of the border of a side it has no
\* neighbour for, the two corners included, as it was before the call; and
\* when both passes are over a tile without a loaded neighbour on a side has
\* its loaded border on that side.
C22_BorderWithoutNeighbourKept ==
    /\ stitch_log # <<>> =>
          \A side \in Sides : NeighbourAt(last_call, side) = {} =>
              \A k \in 0..mesh_resolution(Stitched) :
                  BorderCell(Stitched, side, k) = BorderCell(last_call.self, side, k)
    /\ Finished =>
          \A c \in DOMAIN tiles : \A side \in Sides : NoNeighbour(c, side) =>
              \A k \in 0..mesh_resolution(tiles[c]) :
                  BorderCell(tiles[c], side, k) = BorderCell(loaded[c], side, k)

-----------------------------------------------------------------------------
(* Properties of render_images: order, terrain and result                  *)

\* C23: the requests of a group are rendered in non-decreasing AGL order,
\* and no two reloads of one group happen at altitudes a1 and then a2 with
\* a2 <= 1.5 * a1.
C23_AscendingAglOneReloadPerBand ==
    /\ render_pc = "requests" =>
          /\ \A k \in 1..(Len(chunk_requests) - 1) :
                chunk_requests[k].z <= chunk_requests[k + 1].z
          /\ iteration.taken => iteration.z <= Head(chunk_requests).z
    /\ \A k, m \in 1..Len(reload_log) :
          k < m /\ group_of(reload_log[k]) = group_of(reload_log[m]) =>
              RLt(RMul(<<3, 2>>, RInt(reload_log[k].z)), RInt(reload_log[m].z))

\* A group given with a higher request before a lower one has been rendered
\* with two reloads and, in between, a request that did not reload.
C23_Witness ==
    /\ render_pc = "done"
    /\ \E k, m \in 1..Len(render_requests) :
          /\ k < m
          /\ group_of(render_requests[k]) = group_of(render_requests[m])
          /\ render_requests[k].z > render_requests[m].z
    /\ \E k, m \in 1..Len(reload_log) :
          k < m /\ group_of(reload_log[k]) = group_of(reload_log[m])
    /\ Len(reload_log) < Len(rendered_requests)

\* C29: every request is rendered on a loaded terrain set, never on the
\* empty list, and the set was loaded at an altitude a with a <= z <= 1.5 a
\* for the request's AGL z.
C29_RenderedOnTerrainLoadedForAltitude ==
    \A k \in 1..Len(rendered_requests) :
        LET r == rendered_requests[k]
        IN  /\ r.models # <<>>
            /\ r.models[1].agl_m <= r.z
            /\ RLe(RInt(r.z), RMul(<<3, 2>>, RInt(r.models[1].agl_m)))

\* C30: when render_images returns Ok, the list has one image per request,
\* with that request's id, and is in ascending order of request_id.
C30_OneImagePerRequestSortedById ==
    render_pc = "done" =>
        /\ Len(returned_requests) = Len(render_requests)
        /\ \A k \in 1..Len(render_requests) :
              Cardinality({m \in 1..Len(returned_requests) :
                  /\ returned_requests[m].request_id = render_requests[k].request_id
                  /\ returned_requests[m].z = render_requests[k].z}) = 1
        /\ \A m \in 1..(Len(returned_requests) - 1) :
              returned_requests[m].request_id <= returned_requests[m + 1].request_id

\* Three requests in two groups, given in descending order of id and at
\* altitudes that do not ascend, have been returned.
C30_Witness ==
    /\ render_pc = "done"
    /\ Len(returned_requests) = 3
    /\ render_requests[1].request_id > render_requests[2].request_id
    /\ \E k, m \in 1..3 : group_of(render_requests[k]) # group_of(render_requests[m])
    /\ \E k \in 1..2 : render_requests[k].z > render_requests[k + 1].z

-----------------------------------------------------------------------------
(* Properties of GridCoords::circle                                        *)

\* The coordinates C + (dx, dy) with dx^2 + dy^2 <= rc^2
Disk(c, rc) ==
    {GridCoords(c.x + dx, c.y + dy) : <<dx, dy>> \in
        {d \in ((-rc - 1)..(rc + 1)) \X ((-rc - 1)..(rc + 1)) :
            d[1] * d[1] + d[2] * d[2] <= rc * rc}}

\* C24: circle(C, rc) returns the coordinates of the discrete disk of radius
\* rc around C, each once, and circle_m(C, r) is circle(C, floor(r/1000) + 1).
C24_CircleIsDiscreteDisk ==
    /\ circle_pc = "circle_done" =>
          /\ SeqToSet(circle_coords) = Disk(circle_center, circle_radius)
          /\ Len(circle_coords) = Cardinality(Disk(circle_center, circle_radius))
    /\ circle_pc = "done" =>
          circle_coords = circle_of(circle_center, (radius_m \div IMAGE_SIZE_M) + 1)

\* circle with a radius of 2 cells has returned 13 coordinates, without the
\* corner of the bounding square.
C24_Witness ==
    /\ circle_pc = "circle_done"
    /\ circle_radius = 2
    /\ Len(circle_coords) = 13
    /\ GridCoords(circle_center.x + 2, circle_center.y + 2) \notin SeqToSet(circle_coords)

-----------------------------------------------------------------------------
(* Properties of GridSquare::new                                           *)

\* The tiles the calls so far returned with Ok.
BuiltSquares ==
    {new_squares[k].square : k \in {m \in 1..Len(new_squares) : new_squares[m].ok}}

IsPowerOfTwo(n) == n >= 1 /\ Pow2(Log2Floor(n)) = n

\* C25: the mesh resolution of every tile built is a power of two, and of
\* two tiles built the mesh resolution of one divides that of the other.
C25_MeshResolutionPowerOfTwo ==
    /\ \A t \in BuiltSquares : IsPowerOfTwo(mesh_resolution(t))
    /\ \A t, u \in BuiltSquares :
          \/ mesh_resolution(t) % mesh_resolution(u) = 0
          \/ mesh_resolution(u) % mesh_resolution(t) = 0

\* Two tiles were built, from rasters 3 and 5 pixels wide, with mesh
\* resolutions 4 and 8.
C25_Witness ==
    /\ Len(new_squares) = 2
    /\ new_squares[1].ok /\ new_squares[2].ok
    /\ mesh_resolution(new_squares[1].square) = 4
    /\ mesh_resolution(new_squares[2].square) = 8
    /\ new_args.file.width = 5

\* C26: the elevation grid of every tile built has resolution + 1 columns of
\* resolution + 1 cells, resolution being the tile's field.
C26_GridSizeFromResolutionField ==
    \A t \in BuiltSquares :
        /\ Len(t.elevation) = t.resolution + 1
        /\ \A i \in 1..Len(t.elevation) : Len(t.elevation[i]) = t.resolution + 1

\* The requested mesh resolution of the last call: line 136 applied to line 120.
RequestedMesh == target_mesh_resolution(requested_resolution(new_args.resolution_m))

\* lod is the largest level at which the width is still at least target.
LargestLod(width, target, lod) ==
    /\ lod >= 0
    /\ width \div Pow2(lod) >= target
    /\ width \div Pow2(lod + 1) < target

\* C27 as stated: for every width and every target, the lod of a call is the
\* largest with width / 2^lod >= target (and calc_lod(1024, 256) = 2).
C27_LodKeepsWidthAtLeastTarget ==
    /\ calc_lod(1024, 256) = 2
    /\ new_lod >= 0 => LargestLod(new_args.file.width, RequestedMesh, new_lod)

\* C27 as amended: the same for the calls whose raster is at least as wide
\* as the target; for a narrower raster the lod is 0.
C27_LodKeepsWidthAtLeastTargetIfWideEnough ==
    /\ calc_lod(1024, 256) = 2
    /\ new_lod >= 0 =>
          IF new_args.file.width >= RequestedMesh
          THEN LargestLod(new_args.file.width, RequestedMesh, new_lod)
          ELSE new_lod = 0

\* A raster 8 wide was loaded for a target of 2 at lod 2.
C27_Witness ==
    /\ new_squares # <<>>
    /\ new_squares[Len(new_squares)].ok
    /\ new_args.file.width = 8
    /\ RequestedMesh = 2
    /\ new_lod = 2

\* C28: the mesh resolution of every tile built is at most
\* clamp(ceil(1000 / resolution_m), 2, MESH_MAX_RESOLUTION) and lies between
\* MESH_MIN_RESOLUTION and MESH_MAX_RESOLUTION.
C28_MeshResolutionWithinClamp ==
    new_squares # <<>> /\ new_squares[Len(new_squares)].ok =>
        LET n == mesh_resolution(new_squares[Len(new_squares)].square)
        IN  /\ n <= RequestedMesh
            /\ MESH_MIN_RESOLUTION <= n
            /\ n <= MESH_MAX_RESOLUTION

=============================================================================
